---- MODULE Spec2Model ----
(***************************************************************************)
(* Kwite real-time noise suppression: the three-thread audio pipeline of   *)
(* AudioManager (src/src/audio/mod.rs), its capture callback               *)
(* (src/src/audio/capture.rs) and its output callback                      *)
(* (src/src/audio/output.rs).                                              *)
(*                                                                         *)
(* Samples.  A captured sample is a positive integer: the index of the     *)
(* sample in the device's stream, standing for a distinct finite f32.      *)
(* 0 is the f32 0.0 and NonFinite stands for NaN / +-inf.  Gains are kept  *)
(* in thousandths (0.005 is 5), so a sample that went through the gain     *)
(* loop is in thousandths of the input unit.                               *)
(***************************************************************************)
EXTENDS Integers, Sequences, FiniteSets, TLC

\* ---------------------------------------------------------------- bounds
\* current_frame_size: samples per model frame.  The source fixes it at 480;
\* the accumulator, the channels and the callbacks only compare lengths with
\* it, and the model runs them on short frames
FrameSize == 4
\* frames of the forced max-test-mode period (frame_count < 480 in the
\* source, ten seconds of audio); scaled like the frame
MaxTestFrames == 2
\* a run under load: device callbacks of the capture stream and of the
\* output stream, with the manager kept alive
MaxCaptureCallbacks == 5
MaxOutputCallbacks == 2
\* a run that is shut down: device callbacks of the capture stream and of
\* the output stream, and frames for which the denoiser may produce a
\* non-finite sample, before and after the manager is dropped
ShutdownCaptureCallbacks == 4
ShutdownOutputCallbacks == 1
MaxInvalidFrames == 1
\* a run in which the owner and the GUI act on the live pipeline: device
\* callbacks of the two streams, update_sensitivity calls, and times the GUI
\* takes the metrics lock to read
ControlCaptureCallbacks == 2
ControlOutputCallbacks == 1
MaxSensitivityUpdates == 1
MaxMetricsReads == 1
\* frames an AdvancedNoisePipeline forwards to the metrics in one run
MaxRecordCalls == 102
\* process_frame calls on one EnhancedAudioProcessor
MaxProcessorFrames == 12
\* SpectralGate::process calls on one gate
MaxGateFrames == 12
\* process_frame calls on one AdvancedNoisePipeline
MaxPipelineFrames == 2
\* the gain section taken on its own: the highest frame_count of the frame
\* it is run for (ten seconds of audio are 1000 frames)
MaxFrameNumber == 1001
\* record_frame, update_vad_score and reset calls on one AiMetrics
MaxAiMetricsCalls == 102
\* SimpleResampler::process calls on one resampler, and the samples fed to
\* it over these calls
MaxResamplerCalls == 4
MaxStreamLen == 6

\* ------------------------------------------------------ program constants
\* bounded::<Vec<f32>>(4), both channels
ChannelCapacity == 4
\* samples the VAD and the latency history of AiMetrics keep
HistoryCapacity == 100
\* resampling.rs: the frame RNNoise takes and the rate it takes it at
RNNOISE_FRAME_SIZE == 480
OPTIMAL_SAMPLE_RATE == 48000
\* resampling.rs: the 10 ms frame of a 44.1 kHz stream
Frame44k == 441
\* Duration::from_millis(2), the latency the process thread records (us)
RecordedLatency == 2000
\* frame_count < 480: frames kept in max test mode after the start
ForcedTestFrames == 480
\* the f32 values for which is_finite() is false
NonFinite == 0 - 1

\* ------------------------------------------------- environment (devices)
\* frames per capture callback the input device may deliver
CaptureFrames == {3, 9}
\* frames per output callback the output device may request
OutputFrames == {3}
\* <<channels, sample rate>> of the input device
InputConfigs == {<<2, 48000>>, <<2, 44100>>, <<1, 16000>>}
\* initial_sensitivity of AudioManager::new and the values the owner passes
\* to update_sensitivity (thousandths; the GUI clamps to 0.01 ..= 0.5)
InitialSensitivity == 100
Sensitivities == {10, 500}
\* channels of the output device
OutputChannels == {2}
\* NoiseModel::available_models()
NoiseModels == {"Auto", "RNNoise"}
\* analysis results handed to classify_noise_type: total_energy in
\* ten-thousandths, voice probability and band ratios in thousandths,
\* spectral centroid and rolloff in Hz; each set straddles the thresholds
\* of the rules and holds the values of test_noise_type_classification
TotalEnergies == {9, 10, 5000}
VoiceProbabilities == {100, 700, 701}
HighFreqRatios == {100, 300, 301}
LowFreqRatios == {600, 601, 700}
MidFreqRatios == {200, 400, 401}
SpectralCentroids == {300, 1000, 1001, 2000, 2001}
SpectralRolloffs == {400, 499, 500}
\* frames handed to adapt_frame_for_rnnoise: their lengths, the rates they
\* were captured at and the two sample patterns they may hold
AdapterLengths == {0, 1, 440, 441, 442, 479, 480, 481, 600}
AdapterRates == {48000, 44100, 16000}
AdapterPatterns == {1, 2}
\* sample i (from 0) of pattern k
PatternSample(k, i) == ((i * (7 + 4 * k)) % 201) - 100
\* what the caller's output Vec may hold before the call
AdapterOutputs ==
    {<<>>, <<5, -5, 5>>, [i \in 1..RNNOISE_FRAME_SIZE |-> 3 - (i % 7)]}
\* sample rates a SpectralGate is built for, and the amplitudes (thousandths)
\* of the frames it is fed: silence and a loud frame
GateRates == {48000, 44100}
GateLevels == {0, 500}
\* what an AdvancedNoisePipeline is given: the amplitude (thousandths) of a
\* frame, the voice probability and the frequency profile its analyzer finds
\* in it (a silent, a keyboard-like and the HVAC profile of
\* test_noise_type_classification), the VAD score its model returns, and
\* the ProcessingParameters its owner configures
PipelineLevels == {0, 500}
PipelineVoiceProbabilities == {100, 900}
PipelineProfiles ==
    { [total_energy |-> 9, low_freq_ratio |-> 600, mid_freq_ratio |-> 200,
       high_freq_ratio |-> 100, spectral_centroid |-> 300,
       spectral_rolloff |-> 500],
      [total_energy |-> 5000, low_freq_ratio |-> 600, mid_freq_ratio |-> 200,
       high_freq_ratio |-> 301, spectral_centroid |-> 2001,
       spectral_rolloff |-> 500],
      [total_energy |-> 5000, low_freq_ratio |-> 700, mid_freq_ratio |-> 200,
       high_freq_ratio |-> 100, spectral_centroid |-> 300,
       spectral_rolloff |-> 400] }
PipelineVadScores == {300, 700}
ConfiguredParameters ==
    { [sensitivity |-> IF a THEN 500 ELSE 10, adaptive_mode |-> a,
       noise_gate_enabled |-> g, dynamic_range_enabled |-> d] :
          a \in BOOLEAN, g \in BOOLEAN, d \in BOOLEAN }
\* VAD scores (thousandths) of the frame the gain section is run for
SectionVadScores == {300, 900}
\* the VAD score (thousandths) and the processing time (microseconds)
\* handed to an AiMetrics driven on its own
AiMetricsVadScores == {500}
AiMetricsLatencies == {1000}
\* <<input_rate, output_rate>> of a SimpleResampler: input below output with
\* a ratio of at least 1/4, and equal rates
ResamplerRates ==
    {<<16000, 48000>>, <<24000, 48000>>, <<32000, 48000>>, <<44100, 48000>>,
     <<48000, 48000>>}

\* the lengths of the slices handed to process()
ResamplerChunks == 0..3

\* the k-th sample of the stream fed to a resampler (thousandths)
StreamSample(k) == 100 * k
\* the streams of (vad, latency) results a pipeline may see in a run
MetricStreams == {1, 2}
\* VAD scores (thousandths) the denoiser may return
VadScores == {300}
\* where the denoiser's output may hold a non-finite sample (0: nowhere)
BadPositions == {0, 1, FrameSize}
\* KWITE_MAX_TEST set in the environment or not
MaxTestEnv == {FALSE}
\* what the environment does in one run: how many callbacks the devices
\* deliver, how many frames the denoiser may spoil, and whether the owner
\* drops the manager; which input configuration the device has, whether the
\* input and the output device can be resolved, how often the owner updates
\* the sensitivity and the GUI reads the metrics, and whether the GUI has
\* switched the verification tone on
Quiet ==
    [captures |-> ControlCaptureCallbacks,
     playbacks |-> ControlOutputCallbacks,
     invalid |-> 0, drop |-> FALSE, config |-> <<2, 48000>>,
     input_device |-> TRUE, output_device |-> TRUE,
     updates |-> 0, reads |-> 0, tone |-> FALSE, stream |-> 0]

Runs ==
    { [Quiet EXCEPT !.captures = MaxCaptureCallbacks,
                    !.playbacks = MaxOutputCallbacks],
      [Quiet EXCEPT !.captures = ShutdownCaptureCallbacks,
                    !.playbacks = ShutdownOutputCallbacks,
                    !.invalid = MaxInvalidFrames, !.drop = TRUE],
      [Quiet EXCEPT !.updates = MaxSensitivityUpdates,
                    !.reads = MaxMetricsReads],
      [Quiet EXCEPT !.invalid = MaxInvalidFrames, !.tone = TRUE],
      [Quiet EXCEPT !.config = <<2, 44100>>],
      [Quiet EXCEPT !.config = <<1, 16000>>],
      [Quiet EXCEPT !.input_device = FALSE],
      [Quiet EXCEPT !.output_device = FALSE] }

VARIABLES
    run,                \* the environment of this run, an element of Runs
    running,            \* Arc<AtomicBool> shared by the three threads
    manager,            \* "alive" | "dropped": the AudioManager value
    in_channels,        \* config.channels of the input stream
    sample_rate,        \* config.sample_rate.0 of the input stream
    max_test_mode,      \* static MAX_TEST_MODE_ENABLED
    verification_mode,  \* static PIPELINE_VERIFICATION_MODE
    sensitivity,        \* Arc<AtomicU64> of the manager (thousandths)
    metrics_lock,       \* Mutex of SharedAiMetrics: "free" | "gui"
    metrics,            \* the AiMetrics behind the mutex
    out_channels,       \* config.channels of the output stream
    audio_channel,      \* bounded(4) channel audio_tx -> audio_rx
    processed_channel,  \* bounded(4) channel processed_tx -> processed_rx
    input_pc,           \* input thread: "start" | "alive" | "done"
    capture_pc,         \* input callback: "idle" | "send"
    processed_data,     \* input callback: the chunk about to be sent
    captured,           \* samples the input device has delivered so far
    capture_calls,      \* input callbacks delivered so far
    process_pc,         \* process thread position
    frame_buffer,       \* process thread: Vec accumulating samples
    frame_input,        \* process thread: the frame drained for the model
    frame_output,       \* process thread: the model's output buffer
    vad_score,          \* process thread: VAD score of the current frame
    frame_count,        \* process thread: frames drained so far
    output_pc,          \* output thread: "start" | "alive" | "done"
    playback_pc,        \* output callback: "idle" | "recv"
    buffer,             \* output callback: VecDeque of pending samples
    data,               \* output callback: the device buffer last filled
    output_calls,       \* output callbacks requested so far
    pipeline_pc,        \* AdvancedNoisePipeline::process_frame position
    pipeline_frame,     \* its <<vad_score, processing_time>> for the metrics
    processor,          \* an EnhancedAudioProcessor
    analyzer,           \* classify_noise_type: arguments and result
    adapter,            \* adapt_frame_for_rnnoise: arguments and result
    pipeline,           \* an AdvancedNoisePipeline: parameters and stages
    gate,               \* a SpectralGate
    resampler,          \* a SimpleResampler and the streams it has seen
    gain_section,       \* process thread, gain section of one frame: locals
    hist                \* history of the run (record of observations)

vars == <<run, running, manager, in_channels, sample_rate, max_test_mode,
          verification_mode, out_channels, sensitivity, metrics_lock, metrics,
          audio_channel, processed_channel,
          input_pc, capture_pc, processed_data, captured, capture_calls,
          process_pc, frame_buffer, frame_input, frame_output, vad_score,
          frame_count,
          output_pc, playback_pc, buffer, data, output_calls,
          pipeline_pc, pipeline_frame, processor, analyzer, adapter,
          pipeline, gate, resampler, gain_section, hist>>

config_vars == <<run, in_channels, sample_rate, max_test_mode,
                 verification_mode, out_channels>>
control_vars == <<sensitivity, metrics_lock, metrics>>
stage_vars == <<pipeline, gate, resampler, gain_section>>
component_vars == <<pipeline_pc, pipeline_frame, processor, analyzer,
                    adapter, stage_vars>>
input_vars == <<input_pc, capture_pc, processed_data, captured, capture_calls>>
process_vars == <<process_pc, frame_buffer, frame_input, frame_output,
                  vad_score, frame_count>>
output_vars == <<output_pc, playback_pc, buffer, data, output_calls>>

Min(a, b) == IF a < b THEN a ELSE b

Max(a, b) == IF a < b THEN b ELSE a

\* the samples s[from..] of a sequence
DropFirst(s, n) == SubSeq(s, n + 1, Len(s))

\* -------------------------------------------------------------- metrics
\* AiMetrics::default(): empty histories, zero counters.  VAD scores are in
\* thousandths, avg_vad_score in millionths, latencies in microseconds
NewMetrics ==
    [vad_scores |-> <<>>, processing_latencies |-> <<>>,
     avg_vad_score |-> 0, avg_latency_us |-> 0, peak_latency_us |-> 0,
     total_frames |-> 0]

\* iter().sum() of a history
RECURSIVE SeqSum(_, _)
SeqSum(s, n) == IF n = 0 THEN 0 ELSE s[n] + SeqSum(s, n - 1)

\* a push that drops the new sample once the history is full
PushKeepOldest(history, x) ==
    IF Len(history) >= HistoryCapacity THEN history ELSE Append(history, x)

\* push_back(x); if len() > 100 { pop_front() }
PushEvict(history, x) ==
    LET pushed == Append(history, x)
    IN  IF Len(pushed) > HistoryCapacity THEN Tail(pushed) ELSE pushed

\* update_averages: sum / len over each history that is not empty
UpdateAverages(m) ==
    [m EXCEPT
       !.avg_vad_score =
           IF m.vad_scores # <<>>
           THEN (SeqSum(m.vad_scores, Len(m.vad_scores)) * 1000)
                    \div Len(m.vad_scores)
           ELSE @,
       !.avg_latency_us =
           IF m.processing_latencies # <<>>
           THEN SeqSum(m.processing_latencies, Len(m.processing_latencies))
                    \div Len(m.processing_latencies)
           ELSE @]

\* AiMetrics::record_frame(vad_score, processing_time)
RecordFrame(m, vad, latency_us) ==
    UpdateAverages(
        [m EXCEPT
           !.vad_scores = PushEvict(@, vad),
           !.processing_latencies = PushEvict(@, latency_us),
           !.total_frames = @ + 1,
           !.peak_latency_us = Max(@, latency_us)])

\* AiMetrics::reset
ResetMetrics(m) == NewMetrics

\* if let Ok(mut metrics) = ai_metrics_clone.try_lock() { record_frame }:
\* the metrics after the statement, for the state lock of the mutex
TryRecordFrame(m, lock, vad) ==
    IF lock = "free" THEN RecordFrame(m, vad, RecordedLatency) ELSE m

\* ------------------------------------------------------------- channels
\* a try_send that makes room by discarding the oldest queued message
TrySendDropOldest(ch, msg) ==
    IF Len(ch) >= ChannelCapacity THEN Append(Tail(ch), msg)
    ELSE Append(ch, msg)

\* a send that never looks at the capacity
TrySendUnbounded(ch, msg) == Append(ch, msg)

\* a try_send that puts the message in front of the queued ones
TrySendFront(ch, msg) ==
    IF Len(ch) >= ChannelCapacity THEN ch ELSE <<msg>> \o ch

\* crossbeam bounded channel, try_send: Err(Full) leaves the queue as it is
TrySend(ch, msg) ==
    IF Len(ch) >= ChannelCapacity THEN ch ELSE Append(ch, msg)

\* whether try_send returns Err(Full)
SendFull(ch) == Len(ch) >= ChannelCapacity

\* ------------------------------------------------------ capture callback
\* the interleaved device buffer of one callback: frames * channels samples
DeviceData(first, frames, ch) == [i \in 1..(frames * ch) |-> first + i]

\* data.iter().step_by(2) for stereo, data.to_vec() otherwise
MonoData(d, ch) ==
    IF ch = 2 THEN [i \in 1..((Len(d) + 1) \div 2) |-> d[2 * i - 1]]
    ELSE d

\* the inline 44.1kHz -> 48kHz nearest-sample resampling; other rates pass
ResampleChunk(mono_data, rate) ==
    IF rate # 48000 /\ rate = 44100
    THEN LET target_length == (Len(mono_data) * 48000) \div 44100
         IN  [i \in 1..target_length |->
                LET src_index == ((i - 1) * 44100) \div 48000
                IN  IF src_index < Len(mono_data)
                    THEN mono_data[src_index + 1] ELSE 0]
    ELSE mono_data

\* input thread: get_device_by_id returns None; start_input_stream returns
\* Err, the thread logs it and ends
InputStreamFail ==
    /\ input_pc = "start"
    /\ ~run.input_device
    /\ input_pc' = "done"
    /\ hist' = [hist EXCEPT !.input_error = TRUE]
    /\ UNCHANGED <<running, manager, config_vars, control_vars,
                   component_vars, audio_channel,
                   processed_channel, capture_pc, processed_data, captured,
                   capture_calls, process_vars, output_vars>>

\* input thread: device resolved, stream built and playing
InputStreamStart ==
    /\ input_pc = "start"
    /\ run.input_device
    /\ input_pc' = "alive"
    /\ UNCHANGED <<running, manager, config_vars, control_vars,
                   component_vars, audio_channel,
                   processed_channel, capture_pc, processed_data, captured,
                   capture_calls, process_vars, output_vars, hist>>

\* input thread: while running.load() { sleep(100ms) } ends, stream dropped
InputThreadExit ==
    /\ input_pc = "alive"
    /\ ~running
    /\ input_pc' = "done"
    /\ UNCHANGED <<running, manager, config_vars, control_vars,
                   component_vars, audio_channel,
                   processed_channel, capture_pc, processed_data, captured,
                   capture_calls, process_vars, output_vars, hist>>

\* input callback, up to the try_send: running check, mono, resampling;
\* with running false the callback returns at once and the data is lost
InputCallback(frames) ==
    /\ input_pc = "alive"
    /\ capture_pc = "idle"
    /\ capture_calls < run.captures
    /\ IF running
       THEN LET mono_data == MonoData(DeviceData(captured, frames,
                                                 in_channels), in_channels)
            IN  /\ processed_data' = ResampleChunk(mono_data, sample_rate)
                /\ hist' = [hist EXCEPT
                              !.mono = @ \o mono_data,
                              !.resampled = @ \o processed_data']
                /\ capture_pc' = "send"
                /\ capture_calls' = capture_calls + 1
                /\ captured' = captured + frames * in_channels
       ELSE UNCHANGED <<processed_data, capture_pc, capture_calls, captured,
                        hist>>
    /\ UNCHANGED <<running, manager, config_vars, control_vars,
                   component_vars, audio_channel,
                   processed_channel, input_pc, process_vars, output_vars>>

\* input callback: sender.try_send(processed_data), result ignored
InputTrySend ==
    /\ capture_pc = "send"
    /\ audio_channel' = TrySend(audio_channel, processed_data)
    /\ hist' = [hist EXCEPT
                  !.chunk_drops = IF SendFull(audio_channel) THEN @ + 1 ELSE @]
    /\ capture_pc' = "idle"
    /\ processed_data' = <<>>
    /\ UNCHANGED <<running, manager, config_vars, control_vars,
                   component_vars, processed_channel,
                   input_pc, captured, capture_calls, process_vars,
                   output_vars>>

\* ------------------------------------------------------- process thread
\* an accumulator that puts the new chunk in front of the pending samples
ExtendBufferFront(fb, input_data) == input_data \o fb

\* frame_buffer.extend_from_slice(&input_data)
ExtendBuffer(fb, input_data) == fb \o input_data

\* a drain that stops one sample short of the frame
DrainFrameShort(fb) == SubSeq(fb, 1, FrameSize - 1)

\* frame_buffer.drain(0..current_frame_size).collect()
DrainFrame(fb) == SubSeq(fb, 1, FrameSize)

\* what drain(0..current_frame_size) leaves in the buffer
DrainRest(fb) == DropFirst(fb, FrameSize)

\* vec![0.0f32; current_frame_size]
ZeroFrame == [i \in 1..FrameSize |-> 0]

\* a sample RNNoise wrote for a finite input sample (the model is opaque:
\* any finite value that is a function of its input)
DenoiseSample(x) == IF x = NonFinite THEN NonFinite ELSE 2 * x

\* the frame RNNoise leaves in the output buffer; bad = 0 is a valid frame,
\* bad = p has a non-finite sample at position p
ModelOutput(input, bad) ==
    [i \in 1..Len(input) |->
        IF i = bad THEN NonFinite ELSE DenoiseSample(input[i])]

\* frame_output.iter().any(|&x| !x.is_finite())
AnyNonFinite(frame) == \E i \in 1..Len(frame) : frame[i] = NonFinite

\* a closure without the is_finite() validation of the model's output
DenoiseFrameUnchecked(input, model_out, vad) ==
    IF Len(input) # FrameSize THEN <<input, 0>>
    ELSE <<model_out, vad>>

\* a closure that leaves silence where the model's output was invalid
DenoiseFrameSilence(input, model_out, vad) ==
    IF Len(input) # FrameSize THEN <<input, 0>>
    ELSE IF AnyNonFinite(model_out) THEN <<[i \in 1..Len(input) |-> 0], 0>>
    ELSE <<model_out, vad>>

\* the RELIABLE_DENOISER closure: <<frame_output, vad_score>> it leaves
DenoiseFrame(input, model_out, vad) ==
    IF Len(input) # FrameSize THEN <<input, 0>>
    ELSE IF AnyNonFinite(model_out) THEN <<input, 0>>
    ELSE <<model_out, vad>>

\* the gain (thousandths) chosen for a frame
SelectGain(max_test, count, vad) ==
    IF max_test \/ count < MaxTestFrames
    THEN (IF vad < 800 THEN 5 ELSE 980)
    ELSE (IF vad < 500 THEN 100 ELSE 800)

\* for sample in frame_output.iter_mut() { *sample *= gain }
ApplyGain(frame, gain) ==
    [i \in 1..Len(frame) |->
        IF frame[i] = NonFinite THEN NonFinite ELSE frame[i] * gain]

\* sin(2 pi 440 t) * 0.1 at sample sample_index of the stream: a finite
\* value that depends on the position only (the sine is opaque)
VerificationTone(sample_index) == (sample_index % 5) - 2

\* if use_verification_tone { *sample += tone } over the frame; count is
\* frame_count, already incremented for this frame
ApplyTone(frame, on, count) ==
    IF on
    THEN [i \in 1..Len(frame) |->
             IF frame[i] = NonFinite THEN NonFinite
             ELSE frame[i] + VerificationTone((count - 1) * FrameSize + i - 1)]
    ELSE frame

\* a process loop that never reads the running flag
ProcessLoopForever ==
    /\ process_pc = "check"
    /\ process_pc' = "recv"
    /\ UNCHANGED <<running, manager, config_vars, control_vars,
                   component_vars, audio_channel,
                   processed_channel, input_vars, frame_buffer, frame_input,
                   frame_output, vad_score, frame_count, output_vars, hist>>

\* while running_clone.load(Ordering::Relaxed)
ProcessLoopCheck ==
    /\ process_pc = "check"
    /\ process_pc' = IF running THEN "recv" ELSE "done"
    /\ UNCHANGED <<running, manager, config_vars, control_vars,
                   component_vars, audio_channel,
                   processed_channel, input_vars, frame_buffer, frame_input,
                   frame_output, vad_score, frame_count, output_vars, hist>>

\* audio_rx.recv_timeout(5ms) returns Ok(input_data): extend the buffer
ProcessRecv ==
    /\ process_pc = "recv"
    /\ audio_channel # <<>>
    /\ audio_channel' = Tail(audio_channel)
    /\ frame_buffer' = ExtendBuffer(frame_buffer, Head(audio_channel))
    /\ hist' = [hist EXCEPT !.received = @ \o Head(audio_channel)]
    /\ process_pc' = "drain"
    /\ UNCHANGED <<running, manager, config_vars, control_vars,
                   component_vars, processed_channel,
                   input_vars, frame_input, frame_output, vad_score,
                   frame_count, output_vars>>

\* audio_rx.recv_timeout(5ms) returns Err: nothing arrived, loop again
ProcessRecvTimeout ==
    /\ process_pc = "recv"
    /\ audio_channel = <<>>
    /\ process_pc' = "check"
    /\ UNCHANGED <<running, manager, config_vars, control_vars,
                   component_vars, audio_channel,
                   processed_channel, input_vars, frame_buffer, frame_input,
                   frame_output, vad_score, frame_count, output_vars, hist>>

\* while frame_buffer.len() >= current_frame_size: drain the next frame and
\* run the RELIABLE_DENOISER closure on it (vad_score = ...); the model
\* leaves ModelOutput(frame_input, bad) and returns vad
ProcessFrame(bad, vad) ==
    /\ process_pc = "drain"
    /\ IF Len(frame_buffer) >= FrameSize
       THEN /\ bad # 0 => hist.invalid_frames < run.invalid
            /\ LET frame == DrainFrame(frame_buffer)
                   r == DenoiseFrame(frame, ModelOutput(frame, bad), vad)
               IN  /\ frame_input' = frame
                   /\ frame_output' = r[1]
                   /\ vad_score' = r[2]
                   /\ hist' = [hist EXCEPT
                                 !.handed = @ \o frame,
                                 !.frame_sensitivity = sensitivity,
                                 !.frame_updated = (hist.updates > 0),
                                 !.model_invalid = (bad # 0),
                                 !.invalid_frames =
                                     IF bad # 0 THEN @ + 1 ELSE @]
            /\ frame_buffer' = DrainRest(frame_buffer)
            /\ frame_count' = frame_count + 1
            /\ process_pc' = "gain"
       ELSE /\ process_pc' = "check"
            /\ UNCHANGED <<frame_input, frame_buffer, frame_output,
                           vad_score, frame_count, hist>>
    /\ UNCHANGED <<running, manager, config_vars, control_vars,
                   component_vars, audio_channel,
                   processed_channel, input_vars, output_vars>>

\* the frame after the gain loop and the verification tone
PostProcess(frame, max_test, tone, count, vad) ==
    ApplyTone(ApplyGain(frame, SelectGain(max_test, count, vad)), tone, count)

\* a gain step that gives the frame up as soon as running is false
ProcessGainInterruptible ==
    /\ process_pc = "gain"
    /\ IF running
       THEN /\ frame_output' =
                 PostProcess(frame_output, max_test_mode, verification_mode,
                             frame_count, vad_score)
            /\ metrics' = TryRecordFrame(metrics, metrics_lock, vad_score)
            /\ process_pc' = "send"
       ELSE /\ process_pc' = "done"
            /\ UNCHANGED <<frame_output, metrics>>
    /\ hist' = [hist EXCEPT
                  !.frame_gain = SelectGain(max_test_mode, frame_count,
                                            vad_score),
                  !.metrics_skips = IF running /\ metrics_lock # "free"
                                    THEN @ + 1 ELSE @]
    /\ UNCHANGED <<running, manager, config_vars, sensitivity, metrics_lock,
                   component_vars, audio_channel,
                   processed_channel, input_vars, frame_buffer, frame_input,
                   vad_score, frame_count, output_vars>>

\* gain selection from the global flags and frame_count, the gain loop, the
\* verification tone, then the metrics update under try_lock
ProcessGain ==
    /\ process_pc = "gain"
    /\ frame_output' =
         PostProcess(frame_output, max_test_mode, verification_mode,
                     frame_count, vad_score)
    /\ metrics' = TryRecordFrame(metrics, metrics_lock, vad_score)
    /\ hist' = [hist EXCEPT
                  !.frame_gain = SelectGain(max_test_mode, frame_count,
                                            vad_score),
                  !.metrics_skips = IF metrics_lock # "free"
                                    THEN @ + 1 ELSE @]
    /\ process_pc' = "send"
    /\ UNCHANGED <<running, manager, config_vars, sensitivity, metrics_lock,
                   component_vars, audio_channel,
                   processed_channel, input_vars, frame_buffer, frame_input,
                   vad_score, frame_count, output_vars>>

\* a blocking processed_tx.send(frame_output): waits for room in the channel
ProcessSendBlocking ==
    /\ process_pc = "send"
    /\ Len(processed_channel) < ChannelCapacity
    /\ processed_channel' = Append(processed_channel, frame_output)
    /\ hist' = [hist EXCEPT !.send_attempts = @ + 1,
                            !.model_invalid = FALSE]
    /\ frame_input' = <<>>
    /\ frame_output' = <<>>
    /\ process_pc' = "drain"
    /\ UNCHANGED <<running, manager, config_vars, control_vars,
                   component_vars, audio_channel, input_vars,
                   frame_buffer, vad_score, frame_count, output_vars>>

\* let _ = processed_tx.try_send(frame_output); back to the drain loop
ProcessTrySend ==
    /\ process_pc = "send"
    /\ processed_channel' = TrySend(processed_channel, frame_output)
    /\ hist' = [hist EXCEPT
                  !.send_attempts = @ + 1,
                  !.frame_drops =
                      IF SendFull(processed_channel) THEN @ + 1 ELSE @,
                  !.model_invalid = FALSE]
    /\ frame_input' = <<>>
    /\ frame_output' = <<>>
    /\ process_pc' = "drain"
    /\ UNCHANGED <<running, manager, config_vars, control_vars,
                   component_vars, audio_channel, input_vars,
                   frame_buffer, vad_score, frame_count, output_vars>>

\* -------------------------------------------------------- output thread
\* output thread: neither the selected, a virtual nor the default output
\* device exists; start_output_stream returns Err, the thread logs it and ends
OutputStreamFail ==
    /\ output_pc = "start"
    /\ ~run.output_device
    /\ output_pc' = "done"
    /\ hist' = [hist EXCEPT !.output_error = TRUE]
    /\ UNCHANGED <<running, manager, config_vars, control_vars,
                   component_vars, audio_channel,
                   processed_channel, input_vars, process_vars, playback_pc,
                   buffer, data, output_calls>>

\* output thread: device resolved, stream built and playing
OutputStreamStart ==
    /\ output_pc = "start"
    /\ run.output_device
    /\ output_pc' = "alive"
    /\ UNCHANGED <<running, manager, config_vars, control_vars,
                   component_vars, audio_channel,
                   processed_channel, input_vars, process_vars, playback_pc,
                   buffer, data, output_calls, hist>>

\* output thread: while running.load() { sleep(100ms) } ends, stream dropped
OutputThreadExit ==
    /\ output_pc = "alive"
    /\ ~running
    /\ output_pc' = "done"
    /\ UNCHANGED <<running, manager, config_vars, control_vars,
                   component_vars, audio_channel,
                   processed_channel, input_vars, process_vars, playback_pc,
                   buffer, data, output_calls, hist>>

\* a fill loop that repeats the last sample it wrote when the buffer is empty
RECURSIVE FillChunksStale(_, _, _, _, _)
FillChunksStale(buf, out, filled, ch, popped) ==
    IF Len(filled) >= Len(out)
    THEN <<DropFirst(buf, Len(popped)), filled, popped>>
    ELSE LET front == Len(popped) + 1
             empty == front > Len(buf)
             sample == IF ~empty THEN buf[front]
                       ELSE IF filled # <<>> THEN filled[Len(filled)] ELSE 0
             chunk_len == Min(ch, Len(out) - Len(filled))
         IN  FillChunksStale(buf, out,
                             filled \o [c \in 1..chunk_len |-> sample], ch,
                             IF empty THEN popped ELSE Append(popped, sample))

\* for chunk in data.chunks_mut(channels): pop_front().unwrap_or(0.0) and
\* write it to every sample of the chunk.  filled is the part of data the
\* loop has written, popped the samples it took from the buffer so far.
\* The result is <<buffer, data, popped>>
RECURSIVE FillChunks(_, _, _, _, _)
FillChunks(buf, out, filled, ch, popped) ==
    IF Len(filled) >= Len(out)
    THEN <<DropFirst(buf, Len(popped)), filled, popped>>
    ELSE LET front == Len(popped) + 1
             empty == front > Len(buf)
             sample == IF empty THEN 0 ELSE buf[front]
             chunk_len == Min(ch, Len(out) - Len(filled))
         IN  FillChunks(buf, out,
                        filled \o [c \in 1..chunk_len |-> sample], ch,
                        IF empty THEN popped ELSE Append(popped, sample))

\* the slice the device passes to the callback: frames * channels samples
\* holding whatever the driver left in them (NonFinite stands for that)
DeviceBuffer(frames, ch) == [i \in 1..(frames * ch) |-> NonFinite]

\* while let Ok(audio_data) = receiver.try_recv() { buffer.extend(..) }: one
\* try_recv of the output callback.  Ok extends the buffer and the loop goes
\* on; Err ends the loop and the callback fills the slice out and returns
TryRecvThenFill(out) ==
    IF processed_channel # <<>>
    THEN /\ buffer' = buffer \o Head(processed_channel)
         /\ processed_channel' = Tail(processed_channel)
         /\ hist' = [hist EXCEPT !.drained = @ \o Head(processed_channel)]
         /\ data' = out
         /\ playback_pc' = "recv"
    ELSE LET r == FillChunks(buffer, out, <<>>, out_channels, <<>>)
         IN  /\ buffer' = r[1]
             /\ data' = r[2]
             /\ hist' = [hist EXCEPT !.emitted = @ \o r[3],
                                     !.fills = @ + 1]
             /\ playback_pc' = "idle"
             /\ UNCHANGED processed_channel

\* the device calls the output callback for frames frames: first try_recv
OutputCallback(frames) ==
    /\ output_pc = "alive"
    /\ playback_pc = "idle"
    /\ output_calls < run.playbacks
    /\ output_calls' = output_calls + 1
    /\ TryRecvThenFill(DeviceBuffer(frames, out_channels))
    /\ UNCHANGED <<running, manager, config_vars, control_vars,
                   component_vars, audio_channel, input_vars,
                   process_vars, output_pc>>

\* the output callback, later iterations of its try_recv loop
OutputTryRecv ==
    /\ playback_pc = "recv"
    /\ TryRecvThenFill(data)
    /\ UNCHANGED <<running, manager, config_vars, control_vars,
                   component_vars, audio_channel, input_vars,
                   process_vars, output_pc, output_calls>>

\* ------------------------------------------------------------- manager
\* impl Drop for AudioManager: running.store(false) and nothing else; the
\* JoinHandle fields are dropped, which detaches the threads
DropManager ==
    /\ run.drop
    /\ manager = "alive"
    /\ running' = FALSE
    /\ manager' = "dropped"
    /\ hist' = [hist EXCEPT
                  !.stop_midframe =
                      process_pc \in {"gain", "send"}]
    /\ UNCHANGED <<config_vars, control_vars,
                   component_vars, audio_channel, processed_channel, input_vars,
                   process_vars, output_vars>>

\* AudioManager::update_sensitivity(new_sensitivity): one atomic store
UpdateSensitivity(new_sensitivity) ==
    /\ manager = "alive"
    /\ hist.updates < run.updates
    /\ sensitivity' = new_sensitivity
    /\ hist' = [hist EXCEPT !.updates = @ + 1]
    /\ UNCHANGED <<running, manager, config_vars, metrics_lock, metrics,
                   component_vars, audio_channel, processed_channel,
                   input_vars, process_vars, output_vars>>

\* ----------------------------------------------------------------- GUI
\* KwiteApp::update_ai_metrics: metrics.lock() succeeds
GuiLockMetrics ==
    /\ manager = "alive"
    /\ metrics_lock = "free"
    /\ hist.reads < run.reads
    /\ metrics_lock' = "gui"
    /\ hist' = [hist EXCEPT !.reads = @ + 1]
    /\ UNCHANGED <<running, manager, config_vars, sensitivity, metrics,
                   component_vars, audio_channel, processed_channel,
                   input_vars, process_vars, output_vars>>

\* KwiteApp::update_ai_metrics: get_performance_summary read, guard dropped
GuiUnlockMetrics ==
    /\ metrics_lock = "gui"
    /\ metrics_lock' = "free"
    /\ UNCHANGED <<running, manager, config_vars, sensitivity, metrics,
                   component_vars, audio_channel, processed_channel,
                   input_vars, process_vars, output_vars, hist>>

\* no staged pipeline, spectral gate, SimpleResampler or isolated gain
\* section in use
StagesIdle ==
    /\ pipeline = <<>>
    /\ gate = <<>>
    /\ resampler = <<>>
    /\ gain_section = <<>>

\* no AdvancedNoisePipeline, EnhancedAudioProcessor, analyzer call or frame
\* adaptation in use: the live pipeline of AudioManager uses none of them
ComponentsIdle ==
    /\ pipeline_pc = "none"
    /\ pipeline_frame = <<>>
    /\ processor = <<>>
    /\ analyzer = <<>>
    /\ adapter = <<>>
    /\ StagesIdle

\* ------------------------------------------- AdvancedNoisePipeline, metrics
\* the VAD score (thousandths) and the processing time (us) of the n-th
\* frame of stream k
StreamVad(k, n) == (n * (90 + 7 * k)) % 1001
StreamLatency(k, n) == 500 + ((n * k * 13) % 3000)

\* AdvancedNoisePipeline::process_frame up to its metrics.lock(): the stages
\* have produced vad_score and processing_time (they do not touch the
\* metrics, and the audio they produce is not followed here)
PipelineProcessFrame ==
    /\ pipeline_pc = "idle"
    /\ hist.calls < MaxRecordCalls
    /\ pipeline_frame' = <<StreamVad(run.stream, hist.calls + 1),
                           StreamLatency(run.stream, hist.calls + 1)>>
    /\ pipeline_pc' = "metrics"
    /\ hist' = [hist EXCEPT !.calls = @ + 1]
    /\ UNCHANGED <<running, manager, config_vars, control_vars,
                   audio_channel, processed_channel, input_vars,
                   process_vars, output_vars, processor, analyzer, adapter,
                   stage_vars>>

\* AdvancedNoisePipeline::process_frame, the end: metrics_ref.lock() returns
\* once the mutex is free, record_frame(vad_score, processing_time), unlock
PipelineRecordMetrics ==
    /\ pipeline_pc = "metrics"
    /\ metrics_lock = "free"
    /\ metrics' = RecordFrame(metrics, pipeline_frame[1], pipeline_frame[2])
    /\ hist' = [hist EXCEPT
                  !.pushed_vad = Append(@, pipeline_frame[1]),
                  !.pushed_latency = Append(@, pipeline_frame[2])]
    /\ pipeline_pc' = "idle"
    /\ pipeline_frame' = <<>>
    /\ UNCHANGED <<running, manager, config_vars, sensitivity, metrics_lock,
                   audio_channel, processed_channel, input_vars,
                   process_vars, output_vars, processor, analyzer, adapter,
                   stage_vars>>

\* a holder of the shared metrics calls reset() under the lock
MetricsReset ==
    /\ metrics_lock = "free"
    /\ metrics.total_frames > 0
    /\ metrics' = ResetMetrics(metrics)
    /\ hist' = [hist EXCEPT !.pushed_vad = <<>>, !.pushed_latency = <<>>]
    /\ UNCHANGED <<running, manager, config_vars, sensitivity, metrics_lock,
                   audio_channel, processed_channel, input_vars,
                   process_vars, output_vars, component_vars>>

\* ----------------------------------------------- EnhancedAudioProcessor
\* NoiseModel::is_available
IsAvailable(model) == model \in {"Auto", "RNNoise"}

\* EnhancedAudioProcessor::new(model), the Ok value; panicked records that
\* process_frame ran into its unreachable!() arm
NewProcessor(model) ==
    [selected_model |-> model,
     active_model |-> IF model = "Auto" THEN "RNNoise" ELSE model,
     frame_count |-> 0, total_frames |-> 0, panicked |-> FALSE]

\* a switch_model that makes the selected model the active one as it is
SwitchModelUnresolved(p, new_model) ==
    IF ~IsAvailable(new_model) THEN p
    ELSE [p EXCEPT !.selected_model = new_model,
                   !.frame_count = IF new_model = "Auto" THEN 0 ELSE @,
                   !.active_model = new_model,
                   !.total_frames = IF new_model # p.active_model
                                    THEN 0 ELSE @]

\* EnhancedAudioProcessor::switch_model(new_model): the processor after it
SwitchModel(p, new_model) ==
    IF ~IsAvailable(new_model) THEN p
    ELSE LET new_active_model ==
                 IF new_model = "Auto" THEN "RNNoise" ELSE new_model
         IN  [p EXCEPT !.selected_model = new_model,
                       !.frame_count = IF new_model = "Auto" THEN 0 ELSE @,
                       !.active_model = new_active_model,
                       !.total_frames = IF new_active_model # p.active_model
                                        THEN 0 ELSE @]

\* EnhancedAudioProcessor::process_frame: the processor after it
ProcessorFrame(p) ==
    IF p.active_model = "Auto"
    THEN [p EXCEPT !.frame_count = @ + 1, !.panicked = TRUE]
    ELSE [p EXCEPT !.frame_count = @ + 1, !.total_frames = @ + 1]

\* EnhancedAudioProcessor::current_model
CurrentModel(p) == p.selected_model

ProcessorSwitchModel(new_model) ==
    /\ ~processor.panicked
    /\ processor' = SwitchModel(processor, new_model)
    /\ hist' = [hist EXCEPT !.requested = new_model]
    /\ UNCHANGED <<running, manager, config_vars, control_vars,
                   audio_channel, processed_channel, input_vars,
                   process_vars, output_vars, pipeline_pc, pipeline_frame,
                   analyzer, adapter, stage_vars>>

ProcessorProcessFrame ==
    /\ ~processor.panicked
    /\ hist.calls < MaxProcessorFrames
    /\ processor' = ProcessorFrame(processor)
    /\ hist' = [hist EXCEPT !.calls = @ + 1]
    /\ UNCHANGED <<running, manager, config_vars, control_vars,
                   audio_channel, processed_channel, input_vars,
                   process_vars, output_vars, pipeline_pc, pipeline_frame,
                   analyzer, adapter, stage_vars>>

\* -------------------------------------------------------- AudioAnalyzer
\* the FrequencyProfile values the analyzer may compute for a frame
FrequencyProfiles ==
    [total_energy : TotalEnergies, low_freq_ratio : LowFreqRatios,
     mid_freq_ratio : MidFreqRatios, high_freq_ratio : HighFreqRatios,
     spectral_centroid : SpectralCentroids,
     spectral_rolloff : SpectralRolloffs]

\* a classify_noise_type that looks for speech before silence
ClassifyNoiseTypeSpeechFirst(voice_prob, freq_profile) ==
    IF voice_prob > 700 THEN "Speech"
    ELSE IF freq_profile.total_energy < 10 THEN "Silence"
    ELSE IF /\ freq_profile.high_freq_ratio > 300
            /\ freq_profile.spectral_centroid > 2000 THEN "Keyboard"
    ELSE IF /\ freq_profile.low_freq_ratio > 600
            /\ freq_profile.spectral_rolloff < 500 THEN "HVAC"
    ELSE IF /\ freq_profile.mid_freq_ratio > 400
            /\ freq_profile.spectral_centroid > 1000 THEN "Music"
    ELSE "Unknown"

\* AudioAnalyzer::classify_noise_type
ClassifyNoiseType(voice_prob, freq_profile) ==
    IF freq_profile.total_energy < 10 THEN "Silence"
    ELSE IF voice_prob > 700 THEN "Speech"
    ELSE IF /\ freq_profile.high_freq_ratio > 300
            /\ freq_profile.spectral_centroid > 2000 THEN "Keyboard"
    ELSE IF /\ freq_profile.low_freq_ratio > 600
            /\ freq_profile.spectral_rolloff < 500 THEN "HVAC"
    ELSE IF /\ freq_profile.mid_freq_ratio > 400
            /\ freq_profile.spectral_centroid > 1000 THEN "Music"
    ELSE "Unknown"

\* the analyzer classifies the frame it has analysed
AnalyzerClassify ==
    /\ analyzer.noise_type = "none"
    /\ analyzer' =
          [analyzer EXCEPT !.noise_type =
               ClassifyNoiseType(analyzer.voice_prob, analyzer.freq_profile)]
    /\ UNCHANGED <<running, manager, config_vars, control_vars,
                   audio_channel, processed_channel, input_vars,
                   process_vars, output_vars, pipeline_pc, pipeline_frame,
                   processor, adapter, stage_vars, hist>>

\* ------------------------------------------------ adapt_frame_for_rnnoise
\* linear interpolation of 441 samples to 480: output sample i (from 0)
\* sits at input position i * 441 / 480
Interpolate(input, i) ==
    LET src_index == (i * Len(input)) \div RNNOISE_FRAME_SIZE
        fraction_480 == (i * Len(input)) % RNNOISE_FRAME_SIZE
    IN  IF src_index + 1 < Len(input)
        THEN LET sample1 == input[src_index + 1]
                 sample2 == input[src_index + 2]
             IN  sample1 + ((fraction_480 * (sample2 - sample1))
                              \div RNNOISE_FRAME_SIZE)
        ELSE IF src_index < Len(input) THEN input[src_index + 1]
        ELSE 0

\* an adapt_frame_for_rnnoise that clears the output before it looks at
\* the frame
AdaptFrameClearFirst(input, rate, output) ==
    IF rate = OPTIMAL_SAMPLE_RATE /\ Len(input) = RNNOISE_FRAME_SIZE
    THEN [result |-> "Ok", output |-> input]
    ELSE IF rate = OPTIMAL_SAMPLE_RATE
    THEN IF Len(input) < RNNOISE_FRAME_SIZE
         THEN [result |-> "Ok",
               output |-> input \o
                   [i \in 1..(RNNOISE_FRAME_SIZE - Len(input)) |-> 0]]
         ELSE [result |-> "Ok",
               output |-> SubSeq(input, 1, RNNOISE_FRAME_SIZE)]
    ELSE IF rate = 44100
    THEN IF Len(input) # Frame44k
         THEN [result |-> "Err", output |-> <<>>]
         ELSE [result |-> "Ok",
               output |-> [i \in 1..RNNOISE_FRAME_SIZE |->
                              Interpolate(input, i - 1)]]
    ELSE [result |-> "Err", output |-> <<>>]

\* adapt_frame_for_rnnoise(input, sample_rate, output): the Result and the
\* output Vec after the call
AdaptFrameForRnnoise(input, rate, output) ==
    IF rate = OPTIMAL_SAMPLE_RATE /\ Len(input) = RNNOISE_FRAME_SIZE
    THEN [result |-> "Ok", output |-> input]
    ELSE IF rate = OPTIMAL_SAMPLE_RATE
    THEN IF Len(input) < RNNOISE_FRAME_SIZE
         THEN [result |-> "Ok",
               output |-> input \o
                   [i \in 1..(RNNOISE_FRAME_SIZE - Len(input)) |-> 0]]
         ELSE [result |-> "Ok",
               output |-> SubSeq(input, 1, RNNOISE_FRAME_SIZE)]
    ELSE IF rate = 44100
    THEN IF Len(input) # Frame44k
         THEN [result |-> "Err", output |-> output]
         ELSE [result |-> "Ok",
               output |-> [i \in 1..RNNOISE_FRAME_SIZE |->
                              Interpolate(input, i - 1)]]
    ELSE [result |-> "Err", output |-> output]

\* a caller adapts the frame it holds
AdaptFrame ==
    /\ adapter.result = "none"
    /\ LET r == AdaptFrameForRnnoise(adapter.input, adapter.sample_rate,
                                     adapter.output)
       IN  adapter' = [adapter EXCEPT !.result = r.result,
                                      !.output = r.output]
    /\ UNCHANGED <<running, manager, config_vars, control_vars,
                   audio_channel, processed_channel, input_vars,
                   process_vars, output_vars, pipeline_pc, pipeline_frame,
                   processor, analyzer, stage_vars, hist>>

\* ---------------------------------------------------------- SpectralGate
\* f32::sqrt of a mean square of samples in thousandths, to the thousandth
RECURSIVE IsqrtIn(_, _, _)
IsqrtIn(n, lo, hi) ==
    IF lo = hi THEN lo
    ELSE LET mid == (lo + hi + 1) \div 2
         IN  IF mid * mid <= n THEN IsqrtIn(n, mid, hi)
             ELSE IsqrtIn(n, lo, mid - 1)

Isqrt(n) == IsqrtIn(n, 0, 1000)

\* x * num / den, rounded towards zero
Scale(x, num, den) ==
    IF x < 0 THEN 0 - (((0 - x) * num) \div den) ELSE (x * num) \div den

\* the rms of a frame (thousandths)
Rms(samples) ==
    Isqrt(SeqSum([i \in 1..Len(samples) |-> samples[i] * samples[i]],
                 Len(samples)) \div Len(samples))

\* a frame of FrameSize samples of one amplitude
LevelFrame(level) == [i \in 1..FrameSize |-> level]

\* SpectralGate::new(sample_rate); noise_floor and gate_state in millionths
NewSpectralGate(rate) ==
    [noise_floor |-> 1000, threshold_multiplier |-> 2,
     attack_samples |-> rate \div 1000, release_samples |-> rate \div 20,
     gate_state |-> 0]

\* whether SpectralGate::process sees the frame above its threshold, with
\* the noise floor it has after learning from the frame
GateTarget(g, samples) ==
    LET rms == Rms(samples) * 1000
        noise_floor == IF rms < g.noise_floor * 2
                       THEN (g.noise_floor * 99 + rms) \div 100
                       ELSE g.noise_floor
    IN  IF rms > noise_floor * g.threshold_multiplier THEN 1000000 ELSE 0

\* SpectralGate::process(samples): the gate and the samples after the call
GateProcess(g, samples) ==
    LET rms == Rms(samples) * 1000
        noise_floor == IF rms < g.noise_floor * 2
                       THEN (g.noise_floor * 99 + rms) \div 100
                       ELSE g.noise_floor
        target_state == GateTarget(g, samples)
        gate_state ==
            IF target_state > g.gate_state
            THEN g.gate_state +
                   ((target_state - g.gate_state) \div g.attack_samples)
            ELSE g.gate_state -
                   ((g.gate_state - target_state) \div g.release_samples)
        gate_gain == Max(0, Min(gate_state, 1000000))
    IN  [gate |-> [g EXCEPT !.noise_floor = noise_floor,
                            !.gate_state = gate_state],
         samples |-> [i \in 1..Len(samples) |->
                         Scale(samples[i], gate_gain, 1000000)]]

\* a caller passes the next frame of its stream through its gate;
\* step_samples counts the samples fed since the gate was closed in frames
\* that were all above the threshold, quiet_samples the samples fed since
\* the gate was fully open in frames that were all not above it
GateProcessFrame(level) ==
    /\ hist.calls < MaxGateFrames
    /\ gate' = GateProcess(gate, LevelFrame(level)).gate
    /\ hist' = [hist EXCEPT
                  !.calls = @ + 1,
                  !.step_samples =
                      IF GateTarget(gate, LevelFrame(level)) = 0 THEN 0
                      ELSE IF gate.gate_state = 0 \/ @ > 0
                      THEN @ + FrameSize ELSE 0,
                  !.quiet_samples =
                      IF GateTarget(gate, LevelFrame(level)) # 0 THEN 0
                      ELSE IF gate.gate_state = 1000000 \/ @ > 0
                      THEN @ + FrameSize ELSE 0]
    /\ UNCHANGED <<running, manager, config_vars, control_vars,
                   audio_channel, processed_channel, input_vars,
                   process_vars, output_vars, pipeline_pc, pipeline_frame,
                   processor, analyzer, adapter, pipeline, resampler,
                   gain_section>>

\* ------------------------------------------------- DynamicRangeProcessor
\* DynamicRangeProcessor::new(48000): attack_coeff and release_coeff are
\* exp(-1 / (0.003 * 48000)) and exp(-1 / (0.100 * 48000)), in millionths;
\* threshold and envelope are in thousandths
NewDynamicRangeProcessor ==
    [threshold |-> 500, ratio |-> 3, attack_coeff |-> 993080,
     release_coeff |-> 999792, envelope |-> 0]

Abs(x) == IF x < 0 THEN 0 - x ELSE x

\* DynamicRangeProcessor::process from sample i on: the envelope follower
\* and the compression gain, sample by sample
RECURSIVE CompressFrom(_, _, _)
CompressFrom(d, samples, i) ==
    IF i > Len(samples) THEN [post_processor |-> d, samples |-> samples]
    ELSE LET input_level == Abs(samples[i])
             coeff == IF input_level > d.envelope THEN d.attack_coeff
                      ELSE d.release_coeff
             envelope == input_level +
                           Scale(d.envelope - input_level, coeff, 1000000)
             sample == IF envelope > d.threshold
                       THEN Scale(samples[i],
                                  d.threshold +
                                    ((envelope - d.threshold) \div d.ratio),
                                  envelope)
                       ELSE samples[i]
         IN  CompressFrom([d EXCEPT !.envelope = envelope],
                          [samples EXCEPT ![i] = sample], i + 1)

\* ------------------------------------------------- AdvancedNoisePipeline
\* AdvancedNoisePipeline::new(48000, frame_size, sensitivity, model), the Ok
\* value; context_history is the length of the analyzer's history
NewPipeline(initial_sensitivity, model) ==
    [pre_filter |-> NewSpectralGate(48000),
     confidence_threshold |-> initial_sensitivity,
     context_history |-> 0,
     ai_denoiser |-> NewProcessor(model),
     post_processor |-> NewDynamicRangeProcessor,
     processing_params |->
         [sensitivity |-> initial_sensitivity, adaptive_mode |-> TRUE,
          noise_gate_enabled |-> TRUE, dynamic_range_enabled |-> TRUE],
     total_frames |-> 0]

\* AudioAnalyzer::calculate_recommended_gain (thousandths)
RecommendedGain(voice_prob, noise_type) ==
    CASE noise_type = "Silence" -> 100
      [] noise_type = "Speech" -> 900
      [] noise_type = "Keyboard" -> 200
      [] noise_type = "HVAC" -> 150
      [] noise_type = "Music" -> 600
      [] OTHER -> IF voice_prob > 500 THEN 800 ELSE 200

\* AudioAnalyzer::analyze_audio_context: the AudioContext of a frame in
\* which the detector found voice_prob and the spectral analyzer found
\* freq_profile (both are opaque)
AnalyzeAudioContext(voice_prob, freq_profile) ==
    LET noise_type == ClassifyNoiseType(voice_prob, freq_profile)
    IN  [voice_probability |-> voice_prob, noise_type |-> noise_type,
         frequency_profile |-> freq_profile,
         recommended_gain |-> RecommendedGain(voice_prob, noise_type)]

\* apply_adaptive_gain: final_gain in millionths
AdaptiveGain(context) ==
    LET type_adjustment ==
            CASE context.noise_type = "Speech" -> 1000
              [] context.noise_type = "Keyboard" -> 500
              [] context.noise_type = "HVAC" -> 700
              [] context.noise_type = "Music" -> 900
              [] context.noise_type = "Silence" -> 300
              [] OTHER -> 800
    IN  Max(0, Min(context.recommended_gain * type_adjustment, 1000000))

\* stage 4 of process_frame: the gain (millionths) applied to the frame
StageGain(params, context, vad) ==
    IF params.adaptive_mode THEN AdaptiveGain(context)
    ELSE IF vad > 500 THEN 800000 ELSE 200000

\* a stage 1 that runs the gate whatever the parameters say
RunGateAlways(p, samples) ==
    [ran |-> TRUE, pre_filter |-> GateProcess(p.pre_filter, samples).gate,
     samples |-> GateProcess(p.pre_filter, samples).samples]

\* stage 1 of process_frame: the spectral gate iff noise_gate_enabled
RunGate(p, samples) ==
    IF p.processing_params.noise_gate_enabled
    THEN [ran |-> TRUE,
          pre_filter |-> GateProcess(p.pre_filter, samples).gate,
          samples |-> GateProcess(p.pre_filter, samples).samples]
    ELSE [ran |-> FALSE, pre_filter |-> p.pre_filter, samples |-> samples]

\* stage 5 of process_frame: the dynamic-range processor iff
\* dynamic_range_enabled
RunCompressor(p, samples) ==
    IF p.processing_params.dynamic_range_enabled
    THEN [ran |-> TRUE,
          post_processor |->
              CompressFrom(p.post_processor, samples, 1).post_processor,
          samples |-> CompressFrom(p.post_processor, samples, 1).samples]
    ELSE [ran |-> FALSE, post_processor |-> p.post_processor,
          samples |-> samples]

\* AdvancedNoisePipeline::process_frame(input, output, None): the pipeline
\* after the frame, the output, and what the stages did, in the order they
\* ran; analyzed and denoised are the buffers the analyzer and the model saw
PipelineFrame(p, input, voice_prob, freq_profile, vad) ==
    LET gated == RunGate(p, input)
        context == AnalyzeAudioContext(voice_prob, freq_profile)
        temp_buffer == ModelOutput(gated.samples, 0)
        gain == StageGain(p.processing_params, context, vad)
        gained == [i \in 1..Len(temp_buffer) |->
                      Scale(temp_buffer[i], gain, 1000000)]
        compressed == RunCompressor(p, gained)
    IN  [pipeline |->
             [p EXCEPT !.pre_filter = gated.pre_filter,
                       !.context_history = Min(@ + 1, 50),
                       !.ai_denoiser = ProcessorFrame(@),
                       !.post_processor = compressed.post_processor,
                       !.total_frames = @ + 1],
         output |-> compressed.samples,
         stages |-> (IF gated.ran THEN <<"gate">> ELSE <<>>)
                      \o <<"analyzer", "model", "gain">>
                      \o (IF compressed.ran THEN <<"compressor">> ELSE <<>>),
         analyzed |-> gated.samples,
         denoised |-> temp_buffer,
         context |-> context, vad |-> vad, gain |-> gain]

\* a configure that does not hand the sensitivity to the analyzer
ConfigureParamsOnly(p, params) ==
    [p EXCEPT !.processing_params = params]

\* AdvancedNoisePipeline::configure(params)
Configure(p, params) ==
    [p EXCEPT !.confidence_threshold = params.sensitivity,
              !.processing_params = params]

\* AdvancedNoisePipeline::update_sensitivity(sensitivity)
PipelineSensitivity(p, new_sensitivity) ==
    [p EXCEPT !.processing_params.sensitivity = new_sensitivity,
              !.confidence_threshold = new_sensitivity]

\* the owner passes a frame through the pipeline; hist.frame keeps what the
\* frame did, the pipeline it found and the parameters configured last
PipelineRunFrame(level, voice_prob, freq_profile, vad) ==
    /\ pipeline.total_frames < MaxPipelineFrames
    /\ LET r == PipelineFrame(pipeline, LevelFrame(level), voice_prob,
                              freq_profile, vad)
       IN  /\ pipeline' = r.pipeline
           /\ hist' = [hist EXCEPT
                         !.frame = [stages |-> r.stages, input |-> level,
                                    analyzed |-> r.analyzed,
                                    denoised |-> r.denoised,
                                    output |-> r.output,
                                    context |-> r.context, vad |-> r.vad,
                                    gain |-> r.gain, before |-> pipeline,
                                    params |-> hist.configured]]
    /\ UNCHANGED <<running, manager, config_vars, control_vars,
                   audio_channel, processed_channel, input_vars,
                   process_vars, output_vars, pipeline_pc, pipeline_frame,
                   processor, analyzer, adapter, gate, resampler,
                   gain_section>>

\* the owner calls configure(params)
PipelineConfigure(params) ==
    /\ pipeline' = Configure(pipeline, params)
    /\ hist' = [hist EXCEPT !.configured = params]
    /\ UNCHANGED <<running, manager, config_vars, control_vars,
                   audio_channel, processed_channel, input_vars,
                   process_vars, output_vars, pipeline_pc, pipeline_frame,
                   processor, analyzer, adapter, gate, resampler,
                   gain_section>>

\* the owner calls update_sensitivity(new_sensitivity)
PipelineUpdateSensitivity(new_sensitivity) ==
    /\ pipeline' = PipelineSensitivity(pipeline, new_sensitivity)
    /\ hist' = [hist EXCEPT !.configured.sensitivity = new_sensitivity]
    /\ UNCHANGED <<running, manager, config_vars, control_vars,
                   audio_channel, processed_channel, input_vars,
                   process_vars, output_vars, pipeline_pc, pipeline_frame,
                   processor, analyzer, adapter, gate, resampler,
                   gain_section>>

\* ------------------------------------------- process.rs, intelligent gain
\* determine_processing_parameters(context): gains and threshold in
\* thousandths
DetermineProcessingParameters(context) ==
    LET base ==
            CASE context.noise_type = "Speech" ->
                   [speech_gain |-> 900, noise_gain |-> 300,
                    fade_gain |-> 600, speech_threshold |-> 400]
              [] context.noise_type = "Keyboard" ->
                   [speech_gain |-> 800, noise_gain |-> 50,
                    fade_gain |-> 600, speech_threshold |-> 600]
              [] context.noise_type = "HVAC" ->
                   [speech_gain |-> 850, noise_gain |-> 100,
                    fade_gain |-> 600, speech_threshold |-> 500]
              [] context.noise_type = "Music" ->
                   [speech_gain |-> 900, noise_gain |-> 400,
                    fade_gain |-> 600, speech_threshold |-> 300]
              [] context.noise_type = "Silence" ->
                   [speech_gain |-> 950, noise_gain |-> 50,
                    fade_gain |-> 600, speech_threshold |-> 300]
              [] OTHER ->
                   [speech_gain |-> 800, noise_gain |-> 200,
                    fade_gain |-> 600, speech_threshold |-> 500]
    IN  IF context.voice_probability > 800
        THEN [base EXCEPT !.speech_gain = Min(@ + 100, 1000)]
        ELSE IF context.voice_probability < 200
        THEN [base EXCEPT !.noise_gain = Max(@ \div 2, 20)]
        ELSE base

\* calculate_intelligent_gain(vad_score, context, params), in millionths
CalculateIntelligentGain(vad, context, params) ==
    LET speech_confidence ==
            IF vad > params.speech_threshold
            THEN ((vad - params.speech_threshold) * 1000)
                    \div (1000 - params.speech_threshold)
            ELSE 0
        base_gain == params.noise_gain * 1000 +
                       speech_confidence *
                         (params.speech_gain - params.noise_gain)
        environmental_adjustment ==
            CASE context.noise_type = "Keyboard" ->
                   (IF vad < 300 THEN 700 ELSE 1000)
              [] context.noise_type = "HVAC" -> 900
              [] OTHER -> 1000
    IN  Max(20000, Min(Scale(base_gain, environmental_adjustment, 1000),
                       1000000))

\* ------------------------------------- process thread, the gain section
\* MAX_TEST_MODE_ENABLED.load() || frame_count < 480
UseMaxTestMode(flag, count) == flag \/ count < ForcedTestFrames

\* let gain = if use_max_test_mode { .. } else { .. } (thousandths)
GainOf(use_max_test_mode, vad) ==
    IF use_max_test_mode
    THEN (IF vad < 800 THEN 5 ELSE 980)
    ELSE (IF vad < 500 THEN 100 ELSE 800)

\* the gain section entered for frame number count with the model's output
\* in frame_output
EnterGainSection(count, vad) ==
    [pc |-> "load_max", denoised |-> [i \in 1..FrameSize |-> i],
     frame_output |-> [i \in 1..FrameSize |-> i], vad_score |-> vad,
     frame_count |-> count, use_max_test_mode |-> FALSE,
     use_verification_tone |-> FALSE, gain |-> 0, i |-> 0]

\* let use_max_test_mode = MAX_TEST_MODE_ENABLED.load(Relaxed) || ..
GainLoadMaxTestMode ==
    /\ gain_section.pc = "load_max"
    /\ gain_section' =
         [gain_section EXCEPT
            !.use_max_test_mode =
                UseMaxTestMode(max_test_mode, gain_section.frame_count),
            !.pc = "load_tone"]
    /\ hist' = [hist EXCEPT !.frame_max_test = max_test_mode]
    /\ UNCHANGED <<running, manager, config_vars, control_vars,
                   audio_channel, processed_channel, input_vars,
                   process_vars, output_vars, pipeline_pc, pipeline_frame,
                   processor, analyzer, adapter, pipeline, gate, resampler>>

\* let use_verification_tone = PIPELINE_VERIFICATION_MODE.load(Relaxed);
\* let gain = ..
GainLoadVerificationMode ==
    /\ gain_section.pc = "load_tone"
    /\ gain_section' =
         [gain_section EXCEPT
            !.use_verification_tone = verification_mode,
            !.gain = GainOf(gain_section.use_max_test_mode,
                            gain_section.vad_score),
            !.i = 1,
            !.pc = "gain"]
    /\ UNCHANGED <<running, manager, config_vars, control_vars,
                   audio_channel, processed_channel, input_vars,
                   process_vars, output_vars, pipeline_pc, pipeline_frame,
                   processor, analyzer, adapter, pipeline, gate, resampler,
                   hist>>

\* a gain loop that looks at the flag again for every sample
GainScaleSampleReload ==
    /\ gain_section.pc = "gain"
    /\ gain_section' =
         [gain_section EXCEPT
            !.frame_output[gain_section.i] =
                @ * GainOf(UseMaxTestMode(max_test_mode,
                                          gain_section.frame_count),
                           gain_section.vad_score),
            !.i = IF @ = FrameSize THEN 1 ELSE @ + 1,
            !.pc = IF gain_section.i < FrameSize THEN "gain"
                   ELSE IF gain_section.use_verification_tone THEN "tone"
                   ELSE "done"]
    /\ UNCHANGED <<running, manager, config_vars, control_vars,
                   audio_channel, processed_channel, input_vars,
                   process_vars, output_vars, pipeline_pc, pipeline_frame,
                   processor, analyzer, adapter, pipeline, gate, resampler,
                   hist>>

\* for sample in frame_output.iter_mut() { *sample *= gain }, one sample
GainScaleSample ==
    /\ gain_section.pc = "gain"
    /\ gain_section' =
         [gain_section EXCEPT
            !.frame_output[gain_section.i] = @ * gain_section.gain,
            !.i = IF @ = FrameSize THEN 1 ELSE @ + 1,
            !.pc = IF gain_section.i < FrameSize THEN "gain"
                   ELSE IF gain_section.use_verification_tone THEN "tone"
                   ELSE "done"]
    /\ UNCHANGED <<running, manager, config_vars, control_vars,
                   audio_channel, processed_channel, input_vars,
                   process_vars, output_vars, pipeline_pc, pipeline_frame,
                   processor, analyzer, adapter, pipeline, gate, resampler,
                   hist>>

\* the index in the stream of sample i (from 1) of frame number count
ToneIndex(count, i) == (count - 1) * FrameSize + i - 1

\* if use_verification_tone { .. *sample += tone }, one sample
GainToneSample ==
    /\ gain_section.pc = "tone"
    /\ gain_section' =
         [gain_section EXCEPT
            !.frame_output[gain_section.i] =
                @ + VerificationTone(ToneIndex(gain_section.frame_count,
                                               gain_section.i)),
            !.i = IF @ = FrameSize THEN 1 ELSE @ + 1,
            !.pc = IF gain_section.i < FrameSize THEN "tone" ELSE "done"]
    /\ UNCHANGED <<running, manager, config_vars, control_vars,
                   audio_channel, processed_channel, input_vars,
                   process_vars, output_vars, pipeline_pc, pipeline_frame,
                   processor, analyzer, adapter, pipeline, gate, resampler,
                   hist>>

\* the GUI thread calls set_max_test_mode(enabled)
SetMaxTestMode(enabled) ==
    /\ max_test_mode' = enabled
    /\ UNCHANGED <<run, running, manager, in_channels, sample_rate,
                   verification_mode, out_channels, control_vars,
                   audio_channel, processed_channel, input_vars,
                   process_vars, output_vars, component_vars, hist>>

\* the GUI thread calls set_pipeline_verification_mode(enabled)
SetPipelineVerificationMode(enabled) ==
    /\ verification_mode' = enabled
    /\ UNCHANGED <<run, running, manager, in_channels, sample_rate,
                   max_test_mode, out_channels, control_vars,
                   audio_channel, processed_channel, input_vars,
                   process_vars, output_vars, component_vars, hist>>

\* ------------------------------------------------- AiMetrics on its own
\* update_vad_score without the total_frames increment
UpdateVadScoreUncounted(m, vad) ==
    LET pushed == [m EXCEPT !.vad_scores = PushEvict(@, vad)]
    IN  [pushed EXCEPT
           !.avg_vad_score =
               (SeqSum(pushed.vad_scores, Len(pushed.vad_scores)) * 1000)
                   \div Len(pushed.vad_scores)]

\* AiMetrics::update_vad_score(vad_score)
UpdateVadScore(m, vad) ==
    LET pushed == [m EXCEPT !.vad_scores = PushEvict(@, vad)]
    IN  [pushed EXCEPT
           !.avg_vad_score =
               (SeqSum(pushed.vad_scores, Len(pushed.vad_scores)) * 1000)
                   \div Len(pushed.vad_scores),
           !.total_frames = @ + 1]

\* metrics.record_frame(vad_score, processing_time) by the owner
AiMetricsRecordFrame(vad, latency_us) ==
    /\ hist.calls < MaxAiMetricsCalls
    /\ metrics' = RecordFrame(metrics, vad, latency_us)
    /\ hist' = [hist EXCEPT !.calls = @ + 1]
    /\ UNCHANGED <<running, manager, config_vars, sensitivity, metrics_lock,
                   audio_channel, processed_channel, input_vars,
                   process_vars, output_vars, component_vars>>

\* metrics.update_vad_score(vad_score) by the owner
AiMetricsUpdateVadScore(vad) ==
    /\ hist.calls < MaxAiMetricsCalls
    /\ metrics' = UpdateVadScore(metrics, vad)
    /\ hist' = [hist EXCEPT !.calls = @ + 1]
    /\ UNCHANGED <<running, manager, config_vars, sensitivity, metrics_lock,
                   audio_channel, processed_channel, input_vars,
                   process_vars, output_vars, component_vars>>

\* metrics.reset() by the owner
AiMetricsReset ==
    /\ hist.calls < MaxAiMetricsCalls
    /\ metrics' = ResetMetrics(metrics)
    /\ hist' = [hist EXCEPT !.calls = @ + 1]
    /\ UNCHANGED <<running, manager, config_vars, sensitivity, metrics_lock,
                   audio_channel, processed_channel, input_vars,
                   process_vars, output_vars, component_vars>>

\* ------------------------------------------------------- SimpleResampler
\* An f64 in [0, 8) that is a multiple of 2^-54 is the pair <<hi, lo>> with
\* value (hi * 2^27 + lo) * 2^-54 and lo < 2^27.  Every ratio of at least
\* 1/4 and every position the resampler computes from it is such a value
Two27 == 134217728

Normal(hi, lo) == <<hi + (lo \div Two27), lo % Two27>>

\* round to nearest, ties to even, to the 53 bits of an f64 mantissa
F64Round(x) ==
    LET ulp == IF x[1] < Two27 \div 2 THEN 1
               ELSE IF x[1] < Two27 THEN 2
               ELSE IF x[1] < 2 * Two27 THEN 4
               ELSE IF x[1] < 4 * Two27 THEN 8
               ELSE 16
        q == x[2] \div ulp
        rem == x[2] % ulp
        up == 2 * rem > ulp \/ (2 * rem = ulp /\ q % 2 = 1)
    IN  Normal(x[1], (q + (IF up THEN 1 ELSE 0)) * ulp)

\* a + b in f64
F64Add(a, b) == F64Round(Normal(a[1] + b[1], a[2] + b[2]))

\* n more bits of r / d by long division: <<acc followed by the bits, rest>>
RECURSIVE DivBits(_, _, _, _)
DivBits(r, d, n, acc) ==
    IF n = 0 THEN <<acc, r>>
    ELSE IF 2 * r >= d THEN DivBits(2 * r - d, d, n - 1, 2 * acc + 1)
    ELSE DivBits(2 * r, d, n - 1, 2 * acc)

\* input_rate as f64 / output_rate as f64, for 1/4 <= input / output <= 1
F64Div(input_rate, output_rate) ==
    LET high == DivBits(input_rate % output_rate, output_rate, 27, 0)
        low == DivBits(high[2], output_rate, 27, 0)
        hi == (input_rate \div output_rate) * Two27 + high[1]
        lo == low[1]
        rest == low[2]
    IN  IF hi >= Two27 \div 2
        THEN LET up == lo % 2 = 1 /\ (rest > 0 \/ (lo \div 2) % 2 = 1)
             IN  Normal(hi, ((lo \div 2) + (IF up THEN 1 ELSE 0)) * 2)
        ELSE LET up == 2 * rest > output_rate
                          \/ (2 * rest = output_rate /\ lo % 2 = 1)
             IN  Normal(hi, lo + (IF up THEN 1 ELSE 0))

\* position as usize
Truncate(x) == x[1] \div Two27

\* position - n as f64, for n <= position: the difference is exact
F64SubInt(x, n) == <<x[1] - n * Two27, x[2]>>

\* position < n as f64
F64LessInt(x, n) == x[1] < n * Two27

\* sample1 + fraction as f32 * (sample2 - sample1), kept as the two samples
\* and the fraction it is computed from
Interpolated(sample1, sample2, fraction) == <<sample1, sample2, fraction>>

\* SimpleResampler::new(input_rate, output_rate), with the caller's output
\* vector
NewSimpleResampler(input_rate, output_rate) ==
    [input_rate |-> input_rate, output_rate |-> output_rate,
     buffer |-> <<>>, ratio |-> F64Div(input_rate, output_rate),
     position |-> <<0, 0>>, output |-> <<>>]

NeedsResampling(rs) == rs.input_rate # rs.output_rate

\* the while loop of process: <<position, output>> when it ends
RECURSIVE Generate(_, _, _, _)
Generate(buffered, position, ratio, output) ==
    IF F64LessInt(position, Len(buffered) - 1)
    THEN LET index == Truncate(position)
             fraction == F64SubInt(position, index)
         IN  Generate(buffered, F64Add(position, ratio), ratio,
                      IF index + 1 < Len(buffered)
                      THEN Append(output,
                                  Interpolated(buffered[index + 1],
                                               buffered[index + 2], fraction))
                      ELSE output)
    ELSE <<position, output>>

\* SimpleResampler::process(input, output)
Process(rs, input) ==
    IF ~NeedsResampling(rs)
    THEN [rs EXCEPT !.output = input]
    ELSE LET buffered == rs.buffer \o input
             loop == Generate(buffered, rs.position, rs.ratio, <<>>)
             consumed == Truncate(loop[1])
         IN  [rs EXCEPT
                !.buffer = DropFirst(buffered, Min(consumed, Len(buffered))),
                !.position = F64SubInt(loop[1], consumed),
                !.output = loop[2]]

\* resampler.process(&input, &mut output) on the next n samples of the
\* stream
ResamplerProcess(n) ==
    /\ hist.calls < MaxResamplerCalls
    /\ Len(hist.stream) + n <= MaxStreamLen
    /\ LET input == [i \in 1..n |-> StreamSample(Len(hist.stream) + i)]
           after == Process(resampler, input)
       IN  /\ resampler' = after
           /\ hist' = [hist EXCEPT
                         !.calls = @ + 1,
                         !.stream = @ \o input,
                         !.produced = @ \o after.output]
    /\ UNCHANGED <<running, manager, config_vars, control_vars,
                   audio_channel, processed_channel, input_vars,
                   process_vars, output_vars, pipeline_pc, pipeline_frame,
                   processor, analyzer, adapter, pipeline, gate,
                   gain_section>>

\* the history of a run in which nothing has happened yet
NoHistory ==
    [chunk_drops |-> 0, frame_drops |-> 0, send_attempts |-> 0,
     received |-> <<>>, handed |-> <<>>, drained |-> <<>>,
     emitted |-> <<>>, model_invalid |-> FALSE,
     invalid_frames |-> 0, stop_midframe |-> FALSE,
     fills |-> 0, input_error |-> FALSE, output_error |-> FALSE,
     updates |-> 0, reads |-> 0, metrics_skips |-> 0,
     mono |-> <<>>, resampled |-> <<>>,
     frame_sensitivity |-> InitialSensitivity,
     frame_updated |-> FALSE, frame_gain |-> 0,
     calls |-> 0, pushed_vad |-> <<>>, pushed_latency |-> <<>>,
     requested |-> "none", output_before |-> <<>>,
     stream |-> <<>>, produced |-> <<>>,
     frame_max_test |-> FALSE,
     frame |-> <<>>, configured |-> <<>>,
     step_samples |-> 0, quiet_samples |-> 0]

\* the state AudioManager::new returns in: channels empty, threads spawned
Init ==
    /\ run \in Runs
    /\ running = TRUE
    /\ manager = "alive"
    /\ run.config \in InputConfigs
    /\ in_channels = run.config[1]
    /\ sample_rate = run.config[2]
    /\ max_test_mode \in MaxTestEnv
    /\ verification_mode = run.tone
    /\ sensitivity = InitialSensitivity
    /\ metrics_lock = "free"
    /\ metrics = NewMetrics
    /\ out_channels \in OutputChannels
    /\ audio_channel = <<>>
    /\ processed_channel = <<>>
    /\ input_pc = "start"
    /\ capture_pc = "idle"
    /\ processed_data = <<>>
    /\ captured = 0
    /\ capture_calls = 0
    /\ process_pc = "check"
    /\ frame_buffer = <<>>
    /\ frame_input = <<>>
    /\ frame_output = <<>>
    /\ vad_score = 0
    /\ frame_count = 0
    /\ output_pc = "start"
    /\ playback_pc = "idle"
    /\ buffer = <<>>
    /\ data = <<>>
    /\ output_calls = 0
    /\ ComponentsIdle
    /\ hist = NoHistory

InputStep ==
    \/ InputStreamStart
    \/ InputStreamFail
    \/ InputThreadExit

CaptureStep ==
    \/ \E frames \in CaptureFrames : InputCallback(frames)
    \/ InputTrySend

ProcessStep ==
    \/ ProcessLoopCheck
    \/ ProcessRecv
    \/ ProcessRecvTimeout
    \/ \E bad \in BadPositions, vad \in VadScores : ProcessFrame(bad, vad)
    \/ ProcessGain
    \/ ProcessTrySend

OutputStep ==
    \/ OutputStreamStart
    \/ OutputStreamFail
    \/ OutputThreadExit

PlaybackStep ==
    \/ \E frames \in OutputFrames : OutputCallback(frames)
    \/ OutputTryRecv

OwnerStep ==
    \/ DropManager
    \/ \E s \in Sensitivities : UpdateSensitivity(s)

GuiStep ==
    \/ GuiLockMetrics
    \/ GuiUnlockMetrics

Next ==
    \/ InputStep
    \/ CaptureStep
    \/ ProcessStep
    \/ OutputStep
    \/ PlaybackStep
    \/ OwnerStep
    \/ GuiStep

Spec == Init /\ [][Next]_vars

\* the same steps under the scheduler's fairness: a spawned thread that can
\* take a step eventually takes one
SpecFair ==
    /\ Init
    /\ [][Next]_vars
    /\ WF_vars(InputStep)
    /\ WF_vars(ProcessStep)
    /\ WF_vars(OutputStep)

\* ----------------------------------------------------------- components
\* a component used on its own, as its unit tests use it: the manager's
\* threads and streams take no part, the shared metrics are new
ManagerParked ==
    /\ running = TRUE
    /\ manager = "alive"
    /\ in_channels = run.config[1]
    /\ sample_rate = run.config[2]
    /\ max_test_mode = FALSE
    /\ verification_mode = run.tone
    /\ sensitivity = InitialSensitivity
    /\ metrics_lock = "free"
    /\ metrics = NewMetrics
    /\ out_channels \in OutputChannels
    /\ audio_channel = <<>>
    /\ processed_channel = <<>>
    /\ input_pc = "done"
    /\ capture_pc = "idle"
    /\ processed_data = <<>>
    /\ captured = 0
    /\ capture_calls = 0
    /\ process_pc = "done"
    /\ frame_buffer = <<>>
    /\ frame_input = <<>>
    /\ frame_output = <<>>
    /\ vad_score = 0
    /\ frame_count = 0
    /\ output_pc = "done"
    /\ playback_pc = "idle"
    /\ buffer = <<>>
    /\ data = <<>>
    /\ output_calls = 0

\* an AdvancedNoisePipeline with the shared metrics attached, and the GUI
\* reading them
InitMetrics ==
    /\ run \in {[Quiet EXCEPT !.reads = MaxMetricsReads, !.stream = k] :
                   k \in MetricStreams}
    /\ ManagerParked
    /\ hist = NoHistory
    /\ pipeline_pc = "idle"
    /\ pipeline_frame = <<>>
    /\ processor = <<>>
    /\ analyzer = <<>>
    /\ adapter = <<>>
    /\ StagesIdle

PipelineStep ==
    \/ PipelineProcessFrame
    \/ PipelineRecordMetrics

NextMetrics ==
    \/ PipelineStep
    \/ MetricsReset
    \/ GuiStep

SpecMetrics == InitMetrics /\ [][NextMetrics]_vars

\* an EnhancedAudioProcessor just returned by new(model)
InitProcessor ==
    /\ run = Quiet
    /\ ManagerParked
    /\ pipeline_pc = "none"
    /\ pipeline_frame = <<>>
    /\ \E model \in NoiseModels :
          /\ processor = NewProcessor(model)
          /\ hist = [NoHistory EXCEPT !.requested = model]
    /\ analyzer = <<>>
    /\ adapter = <<>>
    /\ StagesIdle

NextProcessor ==
    \/ \E new_model \in NoiseModels : ProcessorSwitchModel(new_model)
    \/ ProcessorProcessFrame

SpecProcessor == InitProcessor /\ [][NextProcessor]_vars

\* an AudioAnalyzer holding the voice probability and the frequency profile
\* of a frame, before it classifies them
InitAnalyzer ==
    /\ run = Quiet
    /\ ManagerParked
    /\ hist = NoHistory
    /\ pipeline_pc = "none"
    /\ pipeline_frame = <<>>
    /\ processor = <<>>
    /\ \E voice_prob \in VoiceProbabilities :
          \E freq_profile \in FrequencyProfiles :
             analyzer = [voice_prob |-> voice_prob,
                         freq_profile |-> freq_profile,
                         noise_type |-> "none"]
    /\ adapter = <<>>
    /\ StagesIdle

NextAnalyzer == AnalyzerClassify

SpecAnalyzer == InitAnalyzer /\ [][NextAnalyzer]_vars

\* a caller of adapt_frame_for_rnnoise holding a frame and an output Vec
InitResampling ==
    /\ run = Quiet
    /\ ManagerParked
    /\ pipeline_pc = "none"
    /\ pipeline_frame = <<>>
    /\ processor = <<>>
    /\ analyzer = <<>>
    /\ StagesIdle
    /\ \E n \in AdapterLengths, k \in AdapterPatterns :
          \E rate \in AdapterRates, output \in AdapterOutputs :
             /\ adapter = [input |-> [i \in 1..n |-> PatternSample(k, i - 1)],
                           sample_rate |-> rate, output |-> output,
                           result |-> "none"]
             /\ hist = [NoHistory EXCEPT !.output_before = output]

NextResampling == AdaptFrame

SpecResampling == InitResampling /\ [][NextResampling]_vars

\* a SpectralGate just returned by new(sample_rate)
InitGate ==
    /\ run = Quiet
    /\ ManagerParked
    /\ hist = NoHistory
    /\ pipeline_pc = "none"
    /\ pipeline_frame = <<>>
    /\ processor = <<>>
    /\ analyzer = <<>>
    /\ adapter = <<>>
    /\ pipeline = <<>>
    /\ \E rate \in GateRates : gate = NewSpectralGate(rate)
    /\ resampler = <<>>
    /\ gain_section = <<>>

NextGate == \E level \in GateLevels : GateProcessFrame(level)

SpecGate == InitGate /\ [][NextGate]_vars

\* an AdvancedNoisePipeline just returned by
\* new(48000, frame_size, initial_sensitivity, RNNoise), as in
\* test_advanced_pipeline
InitPipeline ==
    /\ run = Quiet
    /\ ManagerParked
    /\ pipeline_pc = "none"
    /\ pipeline_frame = <<>>
    /\ processor = <<>>
    /\ analyzer = <<>>
    /\ adapter = <<>>
    /\ pipeline = NewPipeline(InitialSensitivity, "RNNoise")
    /\ hist = [NoHistory EXCEPT
                 !.configured =
                     NewPipeline(InitialSensitivity,
                                 "RNNoise").processing_params]
    /\ gate = <<>>
    /\ resampler = <<>>
    /\ gain_section = <<>>

NextPipeline ==
    \/ \E level \in PipelineLevels, voice_prob \in PipelineVoiceProbabilities :
         \E freq_profile \in PipelineProfiles, vad \in PipelineVadScores :
            PipelineRunFrame(level, voice_prob, freq_profile, vad)
    \/ \E params \in ConfiguredParameters : PipelineConfigure(params)
    \/ \E new_sensitivity \in Sensitivities :
         PipelineUpdateSensitivity(new_sensitivity)

SpecPipeline == InitPipeline /\ [][NextPipeline]_vars

\* the process thread at the gain section of one frame, the GUI thread free
\* to set the two global flags
InitGainSection ==
    /\ run = Quiet
    /\ ManagerParked
    /\ hist = NoHistory
    /\ pipeline_pc = "none"
    /\ pipeline_frame = <<>>
    /\ processor = <<>>
    /\ analyzer = <<>>
    /\ adapter = <<>>
    /\ pipeline = <<>>
    /\ gate = <<>>
    /\ resampler = <<>>
    /\ \E count \in 1..MaxFrameNumber, vad \in SectionVadScores :
          gain_section = EnterGainSection(count, vad)

NextGainSection ==
    \/ GainLoadMaxTestMode
    \/ GainLoadVerificationMode
    \/ GainScaleSample
    \/ GainToneSample
    \/ \E enabled \in BOOLEAN : SetMaxTestMode(enabled)
    \/ \E enabled \in BOOLEAN : SetPipelineVerificationMode(enabled)

SpecGainSection == InitGainSection /\ [][NextGainSection]_vars

\* an AiMetrics just returned by new(), driven through &mut self
InitAiMetrics ==
    /\ run = Quiet
    /\ ManagerParked
    /\ hist = NoHistory
    /\ pipeline_pc = "none"
    /\ pipeline_frame = <<>>
    /\ processor = <<>>
    /\ analyzer = <<>>
    /\ adapter = <<>>
    /\ StagesIdle

NextAiMetrics ==
    \/ \E vad \in AiMetricsVadScores, latency_us \in AiMetricsLatencies :
          AiMetricsRecordFrame(vad, latency_us)
    \/ \E vad \in AiMetricsVadScores : AiMetricsUpdateVadScore(vad)
    \/ AiMetricsReset

SpecAiMetrics == InitAiMetrics /\ [][NextAiMetrics]_vars

\* a SimpleResampler just returned by new(input_rate, output_rate)
InitSimpleResampler ==
    /\ run = Quiet
    /\ ManagerParked
    /\ hist = NoHistory
    /\ pipeline_pc = "none"
    /\ pipeline_frame = <<>>
    /\ processor = <<>>
    /\ analyzer = <<>>
    /\ adapter = <<>>
    /\ pipeline = <<>>
    /\ gate = <<>>
    /\ \E rates \in ResamplerRates :
          resampler = NewSimpleResampler(rates[1], rates[2])
    /\ gain_section = <<>>

NextSimpleResampler == \E n \in ResamplerChunks : ResamplerProcess(n)

SpecSimpleResampler == InitSimpleResampler /\ [][NextSimpleResampler]_vars

\* ------------------------------------------------------------ properties
AllThreadsDone ==
    /\ input_pc = "done"
    /\ process_pc = "done"
    /\ output_pc = "done"

\* C1: once the accumulator has drained every complete frame of the chunks
\* it received, and these chunks total a multiple of the frame size, the
\* frames handed to the denoiser, concatenated in emission order, are the
\* received samples in arrival order
C1_FramesEqualChunks ==
    (Len(hist.received) % FrameSize = 0 /\ Len(frame_buffer) < FrameSize)
        => hist.handed = hist.received

\* chunks that are not frame-aligned have been turned into whole frames
C1_Witness ==
    /\ Len(hist.received) >= 2 * FrameSize
    /\ Len(hist.received) % FrameSize = 0
    /\ Len(hist.handed) = Len(hist.received)
    /\ frame_buffer = <<>>

\* C2: for a frame whose model output held a non-finite sample, the closure
\* leaves frame_output equal to frame_input and a VAD score of 0.0, and the
\* process thread goes on with the frame (gain, then send) instead of ending
C2_InvalidOutputPassthrough ==
    hist.model_invalid =>
        /\ process_pc \in {"gain", "send"}
        /\ vad_score = 0
        /\ process_pc = "gain" => frame_output = frame_input

\* the closure has just returned from an invalid model output
C2_Witness ==
    /\ hist.model_invalid
    /\ process_pc = "gain"
    /\ Len(frame_input) = FrameSize

\* C3: the capture callback's send can always be taken at once, and taken
\* on a channel that holds 4 chunks it discards the new chunk and leaves the
\* 4 queued chunks as they were
C3_CaptureSendNeverBlocks ==
    /\ [](capture_pc = "send" => ENABLED InputTrySend)
    /\ [][(capture_pc = "send" /\ capture_pc' = "idle"
           /\ Len(audio_channel) = ChannelCapacity)
          => (/\ audio_channel' = audio_channel
              /\ hist'.chunk_drops = hist.chunk_drops + 1)]_vars

\* a chunk has been discarded at a full input channel
C3_Witness ==
    /\ hist.chunk_drops > 0
    /\ Len(audio_channel) = ChannelCapacity
    /\ capture_pc = "idle"

\* C4: every processed frame gets exactly one send attempt, which can always
\* be taken at once; on a full output channel the frame is discarded, the
\* queued frames stay as they were, and the thread is back in its drain loop
C4_ProcessSendDropsOnFull ==
    /\ [](process_pc = "send" => ENABLED ProcessTrySend)
    /\ [](hist.send_attempts =
            frame_count - (IF process_pc \in {"gain", "send"} THEN 1 ELSE 0))
    /\ [][(process_pc = "send" /\ process_pc' # "send")
          => (/\ process_pc' = "drain"
              /\ hist'.send_attempts = hist.send_attempts + 1
              /\ Len(processed_channel) = ChannelCapacity
                   => (/\ processed_channel' = processed_channel
                       /\ hist'.frame_drops = hist.frame_drops + 1))]_vars

\* a processed frame has been discarded at a full output channel
C4_Witness ==
    /\ hist.frame_drops > 0
    /\ Len(processed_channel) = ChannelCapacity
    /\ process_pc = "drain"

\* C5: neither channel ever holds more than 4 messages
C5_ChannelsBounded ==
    /\ Len(audio_channel) <= ChannelCapacity
    /\ Len(processed_channel) <= ChannelCapacity

\* both channels have been filled to the point of refusing a message
C5_Witness ==
    /\ hist.chunk_drops > 0
    /\ hist.frame_drops > 0

\* C6: the audio queued in the output callback's local buffer stays within
\* what the output channel can hold (4 frames), whatever the sink's pace
C6_QueuedAudioBounded ==
    playback_pc = "idle" => Len(buffer) <= ChannelCapacity * FrameSize

\* C7: the samples taken from the output channel are the samples emitted so
\* far followed by the local buffer (FIFO, each sample at most once), and a
\* fill writes the j-th buffered sample to every channel of the j-th output
\* frame, 0.0 to every output frame past the end of the buffer
C7_OutputFifoAndSilence ==
    /\ [](hist.drained = hist.emitted \o buffer)
    /\ [][hist'.fills # hist.fills
          => (/\ \A j \in 1..(Len(data') \div out_channels) :
                   \A c \in 1..out_channels :
                     data'[(j - 1) * out_channels + c] =
                        IF j <= Len(buffer) THEN buffer[j] ELSE 0
              /\ buffer' = DropFirst(buffer,
                                     Min(Len(data') \div out_channels,
                                         Len(buffer))))]_vars

\* a fill that ran out of samples: the last buffered sample, then silence
C7_Witness ==
    /\ playback_pc = "idle"
    /\ Len(data) = 3 * out_channels
    /\ out_channels = 2
    /\ data[1] > 0
    /\ data[2] = data[1]
    /\ data[3] = 0
    /\ hist.emitted # <<>>

\* C8: once running is false, the input, process and output threads all
\* end, under fair scheduling
C8_ShutdownTerminates == (~running) ~> AllThreadsDone

\* all three threads have ended with chunks still queued in the channel
C8_Witness ==
    /\ AllThreadsDone
    /\ ~running
    /\ audio_channel # <<>>
    /\ frame_count > 0

C10_DropJoinsThreads == manager = "dropped" => AllThreadsDone

\* C11: when the capture device cannot be resolved, or no output device is
\* available, starting fails: the caller of AudioManager::new holds no live
\* manager
C11_DeviceErrorFailsStart ==
    (hist.input_error \/ hist.output_error) => manager # "alive"

\* the gain the frame would get with the sensitivity as the VAD threshold
SensitivityGain(max_test, count, vad, threshold) ==
    IF max_test \/ count < MaxTestFrames
    THEN (IF vad < threshold THEN 5 ELSE 980)
    ELSE (IF vad < threshold THEN 100 ELSE 800)

\* C12: a frame the process thread starts after update_sensitivity(s) has
\* returned is processed with s: its gain is the one its VAD score selects
\* against the threshold s
C12_SensitivityApplied ==
    (process_pc = "send" /\ hist.frame_updated)
        => hist.frame_gain = SensitivityGain(max_test_mode, frame_count,
                                             vad_score,
                                             hist.frame_sensitivity)

\* C17: an input stream whose sample rate is neither 48000 nor 44100 Hz is
\* refused: the stream never plays and no frame of it is processed
C17_UnsupportedRateRejected ==
    sample_rate \notin {48000, 44100}
        => (input_pc # "alive" /\ hist.received = <<>> /\ frame_count = 0)

\* C19: at 44.1 kHz the chunks the capture callback has produced so far,
\* concatenated, are the resampling of the unsplit captured stream
C19_ResamplingSplitInvariant ==
    sample_rate = 44100
        => hist.resampled = ResampleChunk(hist.mono, sample_rate)

\* C20 as stated: the frame passed on after a processing fault is silence
C20_FaultYieldsSilence ==
    (process_pc = "send" /\ hist.model_invalid) => frame_output = ZeroFrame

\* C20: the frame passed on after an invalid model output is the frame's own
\* input after the post-processing of a frame with VAD score 0.0 (noise gain,
\* verification tone when it is on): no non-finite sample, nothing of an
\* earlier frame; and the thread goes on to send it and to drain the next
C20_FaultYieldsOwnInput ==
    /\ []((process_pc = "send" /\ hist.model_invalid)
            => (/\ frame_output =
                     PostProcess(frame_input, max_test_mode,
                                 verification_mode, frame_count, 0)
                /\ ~AnyNonFinite(frame_output)
                /\ frame_input =
                     SubSeq(hist.handed,
                            Len(hist.handed) - FrameSize + 1,
                            Len(hist.handed))))
    /\ [][(process_pc = "send" /\ hist.model_invalid /\ process_pc' # "send")
          => (/\ process_pc' = "drain"
              /\ hist'.send_attempts = hist.send_attempts + 1)]_vars

\* a spoiled frame is about to be sent with the verification tone on it
C20_Witness ==
    /\ process_pc = "send"
    /\ hist.model_invalid
    /\ verification_mode
    /\ frame_output # ZeroFrame

\* the last Min(Len(pushed), 100) samples of what was pushed
LastPushed(pushed) ==
    SubSeq(pushed, Len(pushed) - Min(Len(pushed), HistoryCapacity) + 1,
           Len(pushed))

\* C13: after n record_frame calls since creation or the last reset, both
\* histories are the most recent min(n, 100) samples in push order, the
\* averages are the averages of exactly those samples, and total_frames is n
\* (0, with empty histories and zero averages, right after a reset)
C13_RollingHistoryExact ==
    LET n == Len(hist.pushed_vad)
        vads == LastPushed(hist.pushed_vad)
        lats == LastPushed(hist.pushed_latency)
    IN  /\ metrics.vad_scores = vads
        /\ metrics.processing_latencies = lats
        /\ Len(metrics.vad_scores) = Min(n, HistoryCapacity)
        /\ metrics.total_frames = n
        /\ n > 0 => /\ metrics.avg_vad_score =
                         (SeqSum(vads, Len(vads)) * 1000) \div Len(vads)
                    /\ metrics.avg_latency_us =
                         SeqSum(lats, Len(lats)) \div Len(lats)
        /\ n = 0 => /\ metrics.avg_vad_score = 0
                    /\ metrics.avg_latency_us = 0
                    /\ metrics.peak_latency_us = 0

\* the 101st push has evicted the first sample
C13_Witness ==
    /\ Len(hist.pushed_vad) = HistoryCapacity + 1
    /\ Len(metrics.vad_scores) = HistoryCapacity
    /\ metrics.vad_scores[1] = hist.pushed_vad[2]
    /\ metrics.vad_scores[1] # hist.pushed_vad[1]
    /\ metrics.processing_latencies[HistoryCapacity]
         = hist.pushed_latency[HistoryCapacity + 1]

\* C14: a metrics write made while processing a frame never waits for the
\* mutex: it can be taken at once whoever holds the lock
C14_MetricsWriteNeverBlocks ==
    pipeline_pc = "metrics" => ENABLED PipelineRecordMetrics

\* C15: after new(model) and any switch_model and process_frame calls the
\* active model is a concrete model, never Auto, so process_frame has not
\* reached its unreachable arm; current_model() is the model the user
\* selected last, Auto included
C15_ActiveModelConcrete ==
    /\ processor.active_model \in NoiseModels \ {"Auto"}
    /\ ~processor.panicked
    /\ CurrentModel(processor) = hist.requested

\* frames processed after a switch to Auto
C15_Witness ==
    /\ processor.selected_model = "Auto"
    /\ processor.frame_count > 0
    /\ processor.frame_count < hist.calls
    /\ processor.total_frames = hist.calls

\* the rules of the classification, each on its own
SilenceRule == analyzer.freq_profile.total_energy < 10
SpeechRule == analyzer.voice_prob > 700
KeyboardRule ==
    /\ analyzer.freq_profile.high_freq_ratio > 300
    /\ analyzer.freq_profile.spectral_centroid > 2000
HVACRule ==
    /\ analyzer.freq_profile.low_freq_ratio > 600
    /\ analyzer.freq_profile.spectral_rolloff < 500
MusicRule ==
    /\ analyzer.freq_profile.mid_freq_ratio > 400
    /\ analyzer.freq_profile.spectral_centroid > 1000

\* C16: classify_noise_type returns the type of the first rule that matches
\* in the order Silence, Speech, Keyboard, HVAC, Music, and Unknown when
\* none matches: a type is returned exactly when its rule matches and no
\* earlier rule does
C16_FirstMatchingRule ==
    analyzer.noise_type # "none" =>
        /\ analyzer.noise_type = "Silence" <=> SilenceRule
        /\ analyzer.noise_type = "Speech" <=> ~SilenceRule /\ SpeechRule
        /\ analyzer.noise_type = "Keyboard" <=>
               ~SilenceRule /\ ~SpeechRule /\ KeyboardRule
        /\ analyzer.noise_type = "HVAC" <=>
               ~SilenceRule /\ ~SpeechRule /\ ~KeyboardRule /\ HVACRule
        /\ analyzer.noise_type = "Music" <=>
               /\ ~SilenceRule /\ ~SpeechRule /\ ~KeyboardRule
               /\ ~HVACRule /\ MusicRule
        /\ analyzer.noise_type = "Unknown" <=>
               /\ ~SilenceRule /\ ~SpeechRule /\ ~KeyboardRule
               /\ ~HVACRule /\ ~MusicRule

\* a silent frame that matches every later rule too
C16_Witness ==
    /\ analyzer.noise_type = "Silence"
    /\ SpeechRule /\ KeyboardRule /\ HVACRule /\ MusicRule

\* C18: adapt_frame_for_rnnoise given 441 samples at 44100 Hz returns Ok;
\* every Ok leaves exactly 480 samples in the output whatever the input
\* length; every Err leaves the output as it was before the call
C18_AdaptedFrameLength ==
    /\ (/\ adapter.result # "none"
        /\ adapter.sample_rate = 44100
        /\ Len(adapter.input) = 441) => adapter.result = "Ok"
    /\ adapter.result = "Ok" => Len(adapter.output) = 480
    /\ adapter.result = "Err" => adapter.output = hist.output_before

\* a 441-sample frame at 44.1 kHz adapted into a Vec that held stale data
C18_Witness ==
    /\ adapter.result = "Ok"
    /\ adapter.sample_rate = 44100
    /\ Len(adapter.input) = 441
    /\ Len(hist.output_before) = 3
    /\ Len(adapter.output) = 480
    /\ adapter.output[1] = adapter.input[1]

\* C21: every frame the accumulator hands to the model has exactly
\* FrameSize samples, the samples handed over so far are whole frames, and
\* whenever the process thread is not in its drain loop (it is about to
\* check the flag or to receive, or it has ended) the buffer holds fewer
\* than FrameSize samples: every whole frame of a received chunk is drained
\* before the next receive
C21_WholeFramesOnly ==
    /\ frame_input # <<>> => Len(frame_input) = FrameSize
    /\ Len(hist.handed) % FrameSize = 0
    /\ process_pc \in {"check", "recv", "done"} =>
           Len(frame_buffer) < FrameSize

\* the only chunk received so far spanned two frames and a rest: both
\* frames were drained after that one receive and the rest is kept
C21_Witness ==
    /\ capture_calls = 1
    /\ Len(hist.received) = 2 * FrameSize + 1
    /\ Len(hist.handed) = 2 * FrameSize
    /\ Len(frame_buffer) = 1
    /\ process_pc = "check"

\* C27: gate_state stays within [0, 1]; once a closed gate has been fed
\* attack_samples samples of input above the threshold it is fully open;
\* once a fully open gate has been fed release_samples samples of input not
\* above the threshold it is closed
C27_GateSettlesInTime ==
    /\ gate.gate_state \in 0..1000000
    /\ hist.step_samples >= gate.attack_samples => gate.gate_state = 1000000
    /\ hist.quiet_samples >= gate.release_samples => gate.gate_state = 0

\* the stages a frame runs under given parameters, in their order
StagesOf(params) ==
    (IF params.noise_gate_enabled THEN <<"gate">> ELSE <<>>)
      \o <<"analyzer", "model", "gain">>
      \o (IF params.dynamic_range_enabled THEN <<"compressor">> ELSE <<>>)

\* C22: process_frame runs gate, analyzer, model, gain, compressor in this
\* order, the gate iff noise_gate_enabled and the compressor iff
\* dynamic_range_enabled; the analyzer sees the gated frame and the model
\* what the analyzer saw; a disabled gate keeps its noise_floor and
\* gate_state and passes the input on as it is, a disabled compressor keeps
\* its envelope; the analyzer and the model have run on every frame
C22_StagesInOrder ==
    hist.frame # <<>> =>
        LET before == hist.frame.before
            params == before.processing_params
        IN  /\ hist.frame.stages = StagesOf(params)
            /\ hist.frame.denoised = ModelOutput(hist.frame.analyzed, 0)
            /\ ~params.noise_gate_enabled =>
                   /\ pipeline.pre_filter = before.pre_filter
                   /\ hist.frame.analyzed = LevelFrame(hist.frame.input)
            /\ ~params.dynamic_range_enabled =>
                   pipeline.post_processor = before.post_processor
            /\ pipeline.context_history = before.context_history + 1
            /\ pipeline.ai_denoiser.frame_count =
                   before.ai_denoiser.frame_count + 1
            /\ pipeline.context_history = pipeline.total_frames
            /\ pipeline.ai_denoiser.total_frames = pipeline.total_frames

\* a frame that skipped the gate although an earlier frame had moved it,
\* and ran the compressor
C22_Witness ==
    /\ hist.frame # <<>>
    /\ hist.frame.stages = <<"analyzer", "model", "gain", "compressor">>
    /\ hist.frame.before.pre_filter.gate_state > 0
    /\ pipeline.pre_filter = hist.frame.before.pre_filter
    /\ pipeline.post_processor # hist.frame.before.post_processor
    /\ pipeline.total_frames = 2

\* C23: with adaptive_mode on the gain applied to a frame is the blend of
\* the model's VAD score with the frame's context, noise_gain +
\* speech_confidence * (speech_gain - noise_gain) times the environmental
\* adjustment, clamped to [0.02, 1.0]; with adaptive_mode off it is 0.8 for
\* a VAD score above 0.5 and 0.2 otherwise
C23_GainIsIntelligentBlend ==
    hist.frame # <<>> =>
        hist.frame.gain =
            IF hist.frame.before.processing_params.adaptive_mode
            THEN CalculateIntelligentGain(
                     hist.frame.vad, hist.frame.context,
                     DetermineProcessingParameters(hist.frame.context))
            ELSE IF hist.frame.vad > 500 THEN 800000 ELSE 200000

\* C24: after construction and any configure and update_sensitivity calls
\* the four parameters are those of the last configure, with the
\* sensitivity of a later update_sensitivity, the analyzer's sensitivity is
\* processing_params.sensitivity, and a frame is run under the parameters
\* configured last before it: its gate, gain and compressor stages all
\* follow these parameters
C24_ConfigureReplacesAll ==
    /\ pipeline.processing_params = hist.configured
    /\ pipeline.confidence_threshold = pipeline.processing_params.sensitivity
    /\ hist.frame # <<>> =>
          /\ hist.frame.before.processing_params = hist.frame.params
          /\ hist.frame.stages = StagesOf(hist.frame.params)
          /\ hist.frame.gain =
                StageGain(hist.frame.params, hist.frame.context,
                          hist.frame.vad)

\* a frame run after configure switched every stage of the default
\* parameters off
C24_Witness ==
    /\ hist.frame # <<>>
    /\ hist.frame.params =
          [sensitivity |-> 10, adaptive_mode |-> FALSE,
           noise_gate_enabled |-> FALSE, dynamic_range_enabled |-> FALSE]
    /\ hist.frame.stages = <<"analyzer", "model", "gain">>
    /\ hist.frame.before.confidence_threshold = 10
    /\ hist.frame.gain = 800000
    /\ pipeline.total_frames = 1

\* samples of the frame in the gain section that the gain loop has scaled,
\* and samples the tone loop has added the tone to
ScaledSamples ==
    IF gain_section.pc = "gain" THEN 1..(gain_section.i - 1)
    ELSE IF gain_section.pc \in {"tone", "done"} THEN 1..FrameSize
    ELSE {}
TonedSamples ==
    IF gain_section.pc = "tone" THEN 1..(gain_section.i - 1)
    ELSE IF gain_section.pc = "done" /\ gain_section.use_verification_tone
    THEN 1..FrameSize
    ELSE {}

\* C25: whatever the GUI thread sets while a frame is in the gain section,
\* every sample of the frame scaled so far is scaled by one gain, the gain
\* the flag read at the start of the section selects, and a finished frame
\* has the verification tone on all of its samples or on none
C25_OneGainPerFrame ==
    /\ \A k \in ScaledSamples :
          gain_section.frame_output[k] =
              gain_section.denoised[k] *
                GainOf(UseMaxTestMode(hist.frame_max_test,
                                      gain_section.frame_count),
                       gain_section.vad_score)
              + (IF k \in TonedSamples
                 THEN VerificationTone(ToneIndex(gain_section.frame_count, k))
                 ELSE 0)
    /\ gain_section.pc = "done" => TonedSamples \in {{}, 1..FrameSize}

\* a frame past the forced period finished with the normal gain and the
\* tone although max test mode is on and the tone off by now: both were
\* set after the section had read them
C25_Witness ==
    /\ gain_section.pc = "done"
    /\ gain_section.frame_count = ForcedTestFrames
    /\ ~hist.frame_max_test
    /\ max_test_mode
    /\ gain_section.use_verification_tone
    /\ ~verification_mode
    /\ gain_section.frame_output[1] =
           100 + VerificationTone(ToneIndex(ForcedTestFrames, 1))

\* frames of audio in ten seconds: a frame is RNNOISE_FRAME_SIZE samples at
\* OPTIMAL_SAMPLE_RATE, 10 ms
FramesInTenSeconds == (10 * OPTIMAL_SAMPLE_RATE) \div RNNOISE_FRAME_SIZE

\* C26: whatever max test mode is set to, a frame among the first ten
\* seconds of audio gets the extreme gain (0.005 for vad < 0.8, else 0.98);
\* with max test mode off a later frame gets the normal gain (0.1 for
\* vad < 0.5, else 0.8)
C26_ForcedTenSeconds ==
    gain_section.pc \in {"gain", "tone", "done"} =>
        /\ gain_section.frame_count <= FramesInTenSeconds =>
               gain_section.gain =
                   IF gain_section.vad_score < 800 THEN 5 ELSE 980
        /\ (/\ gain_section.frame_count > FramesInTenSeconds
            /\ ~hist.frame_max_test) =>
               gain_section.gain =
                   IF gain_section.vad_score < 500 THEN 100 ELSE 800

\* the k-th frame of a sample stream
FrameAt(s, k) == SubSeq(s, (k - 1) * FrameSize + 1, k * FrameSize)

\* what the process thread may make of the frame block drained as frame
\* number count, one result for each outcome of the model
ProcessedFrames(block, count) ==
    {LET r == DenoiseFrame(block, ModelOutput(block, bad), vad)
     IN  PostProcess(r[1], max_test_mode, verification_mode, count, r[2]) :
        bad \in BadPositions, vad \in VadScores}

\* C28: the chunks the process thread received are in capture order and
\* the frames it drained are consecutive FrameSize-sample blocks of them;
\* the frames the output callback took are whole frames, each derives from
\* a drained frame and the sources come in strictly increasing order, so
\* no frame is duplicated or reordered whatever was dropped on the way; the
\* sink is fed the samples of these frames in that order
C28_OrderPreserved ==
    /\ \A i \in 1..(Len(hist.received) - 1) :
          hist.received[i] <= hist.received[i + 1]
    /\ hist.handed = SubSeq(hist.received, 1, Len(hist.handed))
    /\ Len(hist.drained) % FrameSize = 0
    /\ LET delivered == 1..(Len(hist.drained) \div FrameSize)
           drained == 1..(Len(hist.handed) \div FrameSize)
           outs == {<<k, ProcessedFrames(FrameAt(hist.handed, k), k)>> :
                       k \in drained}
           \* <<j, k>>: delivered frame j may derive from drained frame k
           links == {<<p[1], p[2][1]>> :
                        p \in {q \in delivered \X outs :
                                  FrameAt(hist.drained, q[1]) \in q[2][2]}}
       IN  /\ \A j \in delivered : \E l \in links : l[1] = j
           /\ \A l, m \in links : m[1] = l[1] + 1 => l[2] < m[2]
    /\ hist.emitted = SubSeq(hist.drained, 1, Len(hist.emitted))

\* a frame was dropped at the full output channel and a frame processed
\* after it has been delivered and played
C28_Witness ==
    /\ hist.frame_drops > 0
    /\ Len(hist.drained) >= FrameSize
    /\ \E j \in 1..(Len(hist.drained) \div FrameSize) :
          \A k \in 1..(Len(hist.handed) \div FrameSize) :
             FrameAt(hist.drained, j)
                 \in ProcessedFrames(FrameAt(hist.handed, k), k)
             => k > ChannelCapacity + 1
    /\ Len(hist.emitted) > 0

\* C29: after any record_frame, update_vad_score and reset calls on an
\* AiMetrics, vad_scores holds min(total_frames, 100) scores and
\* processing_latencies is no longer than vad_scores, which is no longer
\* than 100
C29_HistoryLengths ==
    /\ Len(metrics.vad_scores) = Min(metrics.total_frames, HistoryCapacity)
    /\ Len(metrics.processing_latencies) <= Len(metrics.vad_scores)
    /\ Len(metrics.vad_scores) <= HistoryCapacity

\* more than 100 frames counted since a reset, some by record_frame and
\* some by update_vad_score
C29_Witness ==
    /\ hist.calls > metrics.total_frames
    /\ metrics.total_frames > HistoryCapacity
    /\ Len(metrics.vad_scores) = HistoryCapacity
    /\ Len(metrics.processing_latencies) \in 1..(HistoryCapacity - 1)

\* C30: with the input rate below the output rate, the outputs of the
\* process() calls made so far, concatenated, are the output of one
\* process() call of a new resampler on the whole stream fed so far (same
\* length, same interpolation positions), and after every call the buffer
\* holds at most one sample and the position is in [0, 1); at equal rates
\* every call returns its input unchanged
C30_ChunkingInsensitive ==
    LET whole == Process(NewSimpleResampler(resampler.input_rate,
                                            resampler.output_rate),
                         hist.stream)
    IN  /\ resampler.input_rate < resampler.output_rate =>
              /\ hist.produced = whole.output
              /\ Len(resampler.buffer) <= 1
              /\ Truncate(resampler.position) = 0
              /\ resampler.position[1] >= 0
        /\ resampler.input_rate = resampler.output_rate =>
              hist.produced = hist.stream

====
